---- MODULE Spec2Model ----
(***************************************************************************)
(* A model of the drawluna request orchestration: the fail-over loop       *)
(* retryWithConfigs, the backoff loop withRetryDelay, the retry decision   *)
(* shouldRetry, the DrawLunaService operations that compose them, and the  *)
(* ImageAdapter model cache.                                               *)
(*                                                                         *)
(* JavaScript optional values (undefined / present) are modelled as the    *)
(* sequences << >> (absent) and <<x>> (present).                           *)
(***************************************************************************)
EXTENDS Integers, Sequences, FiniteSets, TLC

VARIABLES
    \* ---- retryWithConfigs (utils) ----
    configs,        \* the ImageConfig[] argument
    rwc_pc,         \* "idle" | "loop" | "await" | "done"
    rwc_i,          \* the loop variable i (zero-based)
    result,         \* the RetryResult being built
    opStarted,      \* history: list positions at which operation(config, i) was started
    opOutcomes,     \* history: completions of the operation, in order
    inflight,       \* list positions whose operation has started and not completed
    \* ---- shouldRetry (utils) ----
    sr_error,       \* the error argument
    sr_out,         \* the returned boolean, once returned
    \* ---- withRetryDelay (utils) ----
    maxRetries,     \* the maxRetries argument
    baseDelay,      \* the baseDelay argument
    wrd_pc,         \* "idle" | "loop" | "await" | "delay" | "returned" | "thrown"
    wrd_i,          \* the loop variable i
    lastError,      \* the local lastError
    wrdOut,         \* the value returned, or the value thrown, once completed
    wrdInvoked,     \* history: number of times operation() was called
    wrdOutcomes,    \* history: completions of operation(), in order
    delays,         \* history: the delay(ms) waits started, in order
    \* ---- DrawLunaService ----
    adapters,       \* the provider tags with a registered adapter (_adapters)
    loaded,         \* the loaded configuration list (_configs)
    svc_kind,       \* the operation requested: "generate" | "edit" | "variation"
    svc_model,      \* options.model of the request
    svc_promptTooLong, \* prompt.length > config.maxPromptLength
    svc_pc,         \* "idle" | "retrying" | "returned" | "thrown"
    svc_out,        \* what the request returned or threw
    ad_pc,          \* the per-config operation: "idle" | "ready" | "called"
    adapterCalls,   \* history: the adapter calls made, in order
    adapterOutcomes, \* history: how each adapter call ended, in order
    \* ---- ImageAdapter model cache ----
    now,            \* Date.now(), in milliseconds
    ticks,          \* history: number of clock advances
    modelCache,     \* cache key -> absent, or the entry {models, timestamp}
    registry,       \* ctx.drawluna._models: provider tag -> absent, or a model list
    schemaModels,   \* the `${type}-models` schema: provider tag -> absent, or a list
    gm,             \* per caller: the state of its getModels call
    lastCall,       \* history: the getModels call that returned last
    callsMade,      \* history: number of getModels calls entered
    \* ---- DrawLunaService.getConfigs, called on its own ----
    gc_fallback,    \* options.fallbackToDefault: absent, or a boolean
    gc_answers,     \* history: how supportsModel ended for each eligible config
    gc_out,         \* the list returned, once returned
    \* ---- DoubaoAdapter, one operation call ----
    db_kind,        \* the operation called: "generate" | "edit" | "variation"
    db_model,       \* options.model
    db_defaultModel, \* config.config.defaultModel
    db_defaultEditModel, \* config.config.defaultEditModel
    db_image,       \* options.image: "ok" | "not an array" | "other format"
    db_pc,          \* "idle" | "process" | "submit" | "poll" | "query" | "wait" |
                    \* "returned" | "thrown"
    db_attempt,     \* the loop variable attempt of pollTaskResult
    db_out,         \* the value returned or the error thrown, once completed
    db_http,        \* history: number of HTTP calls made, per Action
    db_reqKey,      \* history: the req_key of the request sent
    db_resp,        \* history: the last response received, per Action
    db_polled,      \* history: number of results that reported each pending status
    \* ---- DoubaoAdapter.buildHeaders ----
    sg_clock,       \* the clock reading new Date() gives
    sg_signed,      \* history: the buildHeaders calls made, with what they returned
    \* ---- OpenAIAdapter.buildGenerationRequest ----
    oa_options,     \* the options argument
    oa_defaultModel, \* config.defaultModel
    oa_request,     \* the request body, once built
    \* ---- OpenAIAdapter.buildEditRequest ----
    oe_model,       \* options.model
    oe_image,       \* options.image: "buffer" | "base64" | "url" | "array" | "other"
    oe_defaultModel, \* config.defaultModel
    oe_defaultEditModel, \* config.defaultEditModel
    oe_out          \* the form built or the error thrown, once completed

rwcVars == <<configs, rwc_pc, rwc_i, result, opStarted, opOutcomes, inflight>>
srVars == <<sr_error, sr_out>>
wrdVars == <<maxRetries, baseDelay, wrd_pc, wrd_i, lastError, wrdOut, wrdInvoked,
             wrdOutcomes, delays>>

svcVars == <<adapters, loaded, svc_kind, svc_model, svc_promptTooLong, svc_pc, svc_out,
             ad_pc, adapterCalls, adapterOutcomes>>

cacheVars == <<now, ticks, modelCache, registry, schemaModels, gm, lastCall, callsMade>>

gcVars == <<gc_fallback, gc_answers, gc_out>>

dbVars == <<db_kind, db_model, db_defaultModel, db_defaultEditModel, db_image, db_pc,
            db_attempt, db_out, db_http, db_reqKey, db_resp, db_polled>>

sgVars == <<sg_clock, sg_signed>>

oaVars == <<oa_options, oa_defaultModel, oa_request>>

oeVars == <<oe_model, oe_image, oe_defaultModel, oe_defaultEditModel, oe_out>>

vars == <<rwcVars, srVars, wrdVars, svcVars, cacheVars, gcVars, dbVars, sgVars, oaVars,
          oeVars>>

----------------------------------------------------------------------------
(* Bounds of the model *)

\* number of configurations loaded by the service (openai entries, then doubao)
MaxConfigs == 3

\* largest maxRetries argument given to withRetryDelay
MaxRetriesBound == 3

\* number of configurations the service loads
MaxLoaded == 2

\* number of clock advances, and of getModels calls, in the cache specification
MaxTicks == 2
MaxCalls == 2

\* the number of buildHeaders calls followed
MaxSigned == 2

----------------------------------------------------------------------------
(* Values *)

None == << >>
Some(x) == <<x>>

\* what a successful operation returns (the h[] element list of a response)
Values == {"img_a", "img_b"}

\* A thrown value.  isError: it is an instance of Error.  message: its
\* .message.  str: String(error).  respStatus: error.response.status.
\* status: error.status.
Thrown(isErr, msg, str, rs, st) ==
    [isError |-> isErr, message |-> msg, str |-> str, respStatus |-> rs, status |-> st]

NoError == Thrown(FALSE, "", "", None, None)

\* the thrown values the abstract operation of retryWithConfigs may end with:
\* the last error of exhausted retries, a permanent provider error, a value
\* that is no Error, the poll timeout of the Doubao adapter (doubao.ts line
\* 273) and its unsupported operation (doubao.ts lines 166-168)
RwcThrown ==
    { Thrown(TRUE, "network down", "Error: network down", None, None),
      Thrown(TRUE, "unauthorized", "Error: unauthorized", Some(401), None),
      Thrown(FALSE, "", "boom", None, None),
      Thrown(TRUE, "task processing timed out", "Error: task processing timed out",
             None, None),
      Thrown(TRUE, "doubao does not support image variations",
             "Error: doubao does not support image variations", None, None) }

\* the retryCount values of a configuration (absent, or a number)
RetryCounts == {None, Some(0), Some(1)}

\* the k-th of n configurations the service loads: the openai entries first,
\* the doubao entry last; index is the position in the loaded list (loadConfigs)
LoadedConfig(k, n, rc) ==
    [index |-> k,
     type |-> IF k = n - 1 THEN "doubao" ELSE "openai",
     retryCount |-> rc]

\* the loaded lists, for every assignment of retryCount values
LoadedLists ==
    { [k \in 1..MaxLoaded |-> LoadedConfig(k - 1, MaxLoaded, rcs[k])] :
        rcs \in [1..MaxLoaded -> RetryCounts] }

RECURSIVE SubSeqsOf(_)
\* the sub-lists (order kept) of the list s
SubSeqsOf(s) ==
    IF s = << >> THEN { << >> }
    ELSE LET prev == SubSeqsOf(SubSeq(s, 1, Len(s) - 1))
         IN prev \cup { Append(t, s[Len(s)]) : t \in prev }

\* the lists retryWithConfigs is checked on: the sub-lists of a loaded list
ConfigLists == SubSeqsOf([k \in 1..MaxConfigs |-> LoadedConfig(k - 1, MaxConfigs, None)])

----------------------------------------------------------------------------
(* retryWithConfigs *)

createRetryResult ==
    [success |-> FALSE, result |-> None, usedConfigIndex |-> None, errors |-> << >>]

\* error instanceof Error ? error.message : String(error)
ErrorMessage(e) == IF e.isError THEN e.message ELSE e.str

FailureIndexOneBased(i) == i + 1

\* the index recorded for a failure at loop position i (line 43)
FailureIndex(i) == i

\* the loop position tried after a failure at position i (line 26, i++)
NextPosition(i) == i + 1

\* RwcEnter without the empty-list test of line 18
RwcEnterNoEmptyTest ==
    /\ rwc_pc = "idle"
    /\ result' = createRetryResult
    /\ rwc_pc' = "loop"
    /\ rwc_i' = 0
    /\ UNCHANGED <<configs, opStarted, opOutcomes, inflight>>

\* lines 16-24: create the result; an empty list fails at once with the sentinel
RwcEnter ==
    /\ rwc_pc = "idle"
    /\ IF Len(configs) = 0
       THEN /\ result' = [createRetryResult EXCEPT
                            !.errors = << [configIndex |-> -1,
                                           error |-> "no configuration available"] >>]
            /\ rwc_pc' = "done"
       ELSE /\ result' = createRetryResult
            /\ rwc_pc' = "loop"
    /\ rwc_i' = 0
    /\ UNCHANGED <<configs, opStarted, opOutcomes, inflight>>

\* RwcInvoke without the await of line 29: the next position is started at once
RwcInvokeNoAwait ==
    /\ rwc_pc = "loop"
    /\ rwc_i < Len(configs)
    /\ opStarted' = Append(opStarted, rwc_i)
    /\ inflight' = inflight \cup {rwc_i}
    /\ rwc_i' = rwc_i + 1
    /\ UNCHANGED <<configs, rwc_pc, result, opOutcomes>>

\* line 26 (loop test true) and line 29: operation(config, i) is started and awaited
RwcInvoke ==
    /\ rwc_pc = "loop"
    /\ rwc_i < Len(configs)
    /\ opStarted' = Append(opStarted, rwc_i)
    /\ inflight' = inflight \cup {rwc_i}
    /\ rwc_pc' = "await"
    /\ UNCHANGED <<configs, rwc_i, result, opOutcomes>>

\* RwcResolve without the return of line 38: the loop goes on after a success
RwcResolveNoReturn(v) ==
    /\ rwc_pc = "await"
    /\ result' = [result EXCEPT !.success = TRUE,
                                !.result = Some(v),
                                !.usedConfigIndex = Some(rwc_i)]
    /\ opOutcomes' = Append(opOutcomes,
                            [pos |-> rwc_i, ok |-> TRUE, value |-> v, error |-> NoError])
    /\ inflight' = inflight \ {rwc_i}
    /\ rwc_i' = rwc_i + 1
    /\ rwc_pc' = "loop"
    /\ UNCHANGED <<configs, opStarted>>

\* lines 29-38: the awaited operation returned v
RwcResolve(v) ==
    /\ rwc_pc = "await"
    /\ result' = [result EXCEPT !.success = TRUE,
                                !.result = Some(v),
                                !.usedConfigIndex = Some(rwc_i)]
    /\ opOutcomes' = Append(opOutcomes,
                            [pos |-> rwc_i, ok |-> TRUE, value |-> v, error |-> NoError])
    /\ inflight' = inflight \ {rwc_i}
    /\ rwc_pc' = "done"
    /\ UNCHANGED <<configs, rwc_i, opStarted>>

\* RwcReject that gives up on an error carrying a status of noRetryStatuses
RwcRejectStopsOnPermanent(e) ==
    /\ rwc_pc = "await"
    /\ result' = [result EXCEPT
                    !.errors = Append(@, [configIndex |-> FailureIndex(rwc_i),
                                          error |-> ErrorMessage(e)])]
    /\ opOutcomes' = Append(opOutcomes,
                            [pos |-> rwc_i, ok |-> FALSE, value |-> "", error |-> e])
    /\ inflight' = inflight \ {rwc_i}
    /\ rwc_i' = NextPosition(rwc_i)
    /\ rwc_pc' = IF e.respStatus \in {Some(400), Some(401), Some(403), Some(404), Some(422)}
                 THEN "done" ELSE "loop"
    /\ UNCHANGED <<configs, opStarted>>

\* lines 39-50: the awaited operation threw e
RwcReject(e) ==
    /\ rwc_pc = "await"
    /\ result' = [result EXCEPT
                    !.errors = Append(@, [configIndex |-> FailureIndex(rwc_i),
                                          error |-> ErrorMessage(e)])]
    /\ opOutcomes' = Append(opOutcomes,
                            [pos |-> rwc_i, ok |-> FALSE, value |-> "", error |-> e])
    /\ inflight' = inflight \ {rwc_i}
    /\ rwc_i' = NextPosition(rwc_i)
    /\ rwc_pc' = "loop"
    /\ UNCHANGED <<configs, opStarted>>

\* line 26 (loop test false) and line 53
RwcExit ==
    /\ rwc_pc = "loop"
    /\ rwc_i >= Len(configs)
    /\ rwc_pc' = "done"
    /\ UNCHANGED <<configs, rwc_i, result, opStarted, opOutcomes, inflight>>

\* the operation argument, left abstract: it returns some value or throws
OperationReturns == \E v \in Values : RwcResolve(v)
OperationThrows == \E e \in RwcThrown : RwcReject(e)

\* retryWithConfigs not yet called, on the list cs
RwcIdle(cs) ==
    /\ configs = cs
    /\ rwc_pc = "idle"
    /\ rwc_i = 0
    /\ result = createRetryResult
    /\ opStarted = << >>
    /\ opOutcomes = << >>
    /\ inflight = {}

----------------------------------------------------------------------------
(* shouldRetry *)

\* JavaScript truthiness of an optional number: undefined and 0 are falsy
Truthy(x) == x # None /\ x[1] # 0

\* a || b on optional numbers
JsOr(a, b) == IF Truthy(a) THEN a ELSE b

\* lines 92-96
isHttpError(e) == Truthy(JsOr(e.respStatus, e.status))

NoRetryStatusesWithout422 == {400, 401, 403, 404}

\* line 122
noRetryStatuses == {400, 401, 403, 404, 422}

\* lines 112-125
shouldRetry(e) ==
    IF ~isHttpError(e) THEN TRUE
    ELSE LET status == JsOr(e.respStatus, e.status)
         IN ~(status # None /\ status[1] \in noRetryStatuses)

\* the HTTP status codes an error may carry
StatusCodes == {200, 400, 401, 403, 404, 422, 429, 500, 503}

OptStatus == {None} \cup { Some(c) : c \in StatusCodes }

\* the errors shouldRetry is applied to
SrErrors ==
    { Thrown(TRUE, "failed", "Error: failed", rs, st) : rs \in OptStatus, st \in OptStatus }

SrIdle(e) ==
    /\ sr_error = e
    /\ sr_out = None

\* one call shouldRetry(sr_error)
SrApply ==
    /\ sr_out = None
    /\ sr_out' = Some(shouldRetry(sr_error))
    /\ UNCHANGED sr_error

----------------------------------------------------------------------------
(* withRetryDelay *)

\* defaults of the parameters, lines 133-134
DefaultMaxRetries == 3
DefaultBaseDelay == 1000

RECURSIVE Pow(_, _)
\* Math.pow(b, n) for a natural n
Pow(b, n) == IF n = 0 THEN 1 ELSE b * Pow(b, n - 1)

DelayTimeLinear(base, i) == base * (i + 1)

\* line 148
DelayTime(base, i) == base * Pow(2, i)

\* the thrown values the operation of withRetryDelay may end with
WrdThrown ==
    { Thrown(TRUE, "network down", "Error: network down", None, None),
      Thrown(TRUE, "server error", "Error: server error", Some(500), None),
      Thrown(TRUE, "rate limited", "Error: rate limited", None, Some(429)),
      Thrown(TRUE, "unauthorized", "Error: unauthorized", Some(401), None),
      Thrown(TRUE, "not found", "Error: not found", None, Some(404)) }

\* withRetryDelay not yet called, with arguments m and b
WrdIdle(m, b) ==
    /\ maxRetries = m
    /\ baseDelay = b
    /\ wrd_pc = "idle"
    /\ wrd_i = 0
    /\ lastError = None
    /\ wrdOut = None
    /\ wrdInvoked = 0
    /\ wrdOutcomes = << >>
    /\ delays = << >>

\* lines 136-138: lastError is declared, i = 0
WrdEnter ==
    /\ wrd_pc = "idle"
    /\ wrd_pc' = "loop"
    /\ wrd_i' = 0
    /\ lastError' = None
    /\ UNCHANGED <<maxRetries, baseDelay, wrdOut, wrdInvoked, wrdOutcomes, delays>>

\* line 138 (loop test), then line 140 (operation() is called and awaited) or,
\* when the test fails, line 153 (throw lastError)
WrdLoopTest ==
    /\ wrd_pc = "loop"
    /\ IF wrd_i <= maxRetries
       THEN /\ wrdInvoked' = wrdInvoked + 1
            /\ wrd_pc' = "await"
            /\ UNCHANGED wrdOut
       ELSE /\ wrdOut' = lastError
            /\ wrd_pc' = "thrown"
            /\ UNCHANGED wrdInvoked
    /\ UNCHANGED <<maxRetries, baseDelay, wrd_i, lastError, wrdOutcomes, delays>>

\* WrdResolve that goes round the loop again after a success
WrdResolveKeepsGoing(v) ==
    /\ wrd_pc = "await"
    /\ wrdOutcomes' = Append(wrdOutcomes, [ok |-> TRUE, value |-> v, error |-> NoError])
    /\ wrdOut' = Some(v)
    /\ wrd_pc' = "delay"
    /\ UNCHANGED <<maxRetries, baseDelay, wrd_i, lastError, wrdInvoked, delays>>

\* line 140: the awaited operation() returned v
WrdResolve(v) ==
    /\ wrd_pc = "await"
    /\ wrdOutcomes' = Append(wrdOutcomes, [ok |-> TRUE, value |-> v, error |-> NoError])
    /\ wrdOut' = Some(v)
    /\ wrd_pc' = "returned"
    /\ UNCHANGED <<maxRetries, baseDelay, wrd_i, lastError, wrdInvoked, delays>>

\* WrdReject without the shouldRetry test of line 144
WrdRejectAlwaysRetries(e) ==
    /\ wrd_pc = "await"
    /\ wrdOutcomes' = Append(wrdOutcomes, [ok |-> FALSE, value |-> "", error |-> e])
    /\ lastError' = Some(e)
    /\ IF wrd_i = maxRetries
       THEN /\ wrdOut' = Some(e)
            /\ wrd_pc' = "thrown"
            /\ UNCHANGED delays
       ELSE /\ delays' = Append(delays, DelayTime(baseDelay, wrd_i))
            /\ wrd_pc' = "delay"
            /\ UNCHANGED wrdOut
    /\ UNCHANGED <<maxRetries, baseDelay, wrd_i, wrdInvoked>>

\* lines 141-149 and 153: the awaited operation() threw e; either break and
\* throw lastError, or start the wait delay(baseDelay * 2^i)
WrdReject(e) ==
    /\ wrd_pc = "await"
    /\ wrdOutcomes' = Append(wrdOutcomes, [ok |-> FALSE, value |-> "", error |-> e])
    /\ lastError' = Some(e)
    /\ IF wrd_i = maxRetries \/ ~shouldRetry(e)
       THEN /\ wrdOut' = Some(e)
            /\ wrd_pc' = "thrown"
            /\ UNCHANGED delays
       ELSE /\ delays' = Append(delays, DelayTime(baseDelay, wrd_i))
            /\ wrd_pc' = "delay"
            /\ UNCHANGED wrdOut
    /\ UNCHANGED <<maxRetries, baseDelay, wrd_i, wrdInvoked>>

\* WrdDelayElapsed without the i++ of the loop
WrdDelayElapsedSameTry ==
    /\ wrd_pc = "delay"
    /\ wrd_pc' = "loop"
    /\ UNCHANGED <<maxRetries, baseDelay, wrd_i, lastError, wrdOut, wrdInvoked,
                   wrdOutcomes, delays>>

\* line 149 completes, then i++ of line 138
WrdDelayElapsed ==
    /\ wrd_pc = "delay"
    /\ wrd_i' = wrd_i + 1
    /\ wrd_pc' = "loop"
    /\ UNCHANGED <<maxRetries, baseDelay, lastError, wrdOut, wrdInvoked, wrdOutcomes,
                   delays>>

\* the operation argument, left abstract
WrdOperationReturns == \E v \in Values : WrdResolve(v)
WrdOperationThrows == \E e \in WrdThrown : WrdReject(e)

----------------------------------------------------------------------------
(* DrawLunaService: getConfigs and the three request operations *)

Kinds == {"generate", "edit", "variation"}

\* the model names a request may ask for
RequestModels == {None, Some("dall-e-3")}

\* what an adapter call may throw: a network failure without status, or an
\* HTTP error response
AdapterThrown ==
    { Thrown(TRUE, "network down", "Error: network down", None, None),
      Thrown(TRUE, "unauthorized", "Error: unauthorized", Some(401), None) }

\* the service with no request made: adapters as, loaded list ls
SvcIdle(as, ls, kind, model, tooLong) ==
    /\ adapters = as
    /\ loaded = ls
    /\ svc_kind = kind
    /\ svc_model = model
    /\ svc_promptTooLong = tooLong
    /\ svc_pc = "idle"
    /\ svc_out = [kind |-> "none", value |-> "", errors |-> << >>]
    /\ ad_pc = "idle"
    /\ adapterCalls = << >>
    /\ adapterOutcomes = << >>

\* the service is not part of the specification
SvcUnused == SvcIdle({}, << >>, "generate", None, FALSE)

\* getAllConfigs, lines 118-122
getAllConfigs == SelectSeq(loaded, LAMBDA c : c.type \in adapters)

RECURSIVE CompatibleNewestFirst(_, _)
\* Compatible that puts each supporting config in front of the earlier ones
CompatibleNewestFirst(cs, answers) ==
    IF cs = << >> THEN << >>
    ELSE LET front == CompatibleNewestFirst(SubSeq(cs, 1, Len(cs) - 1), answers)
         IN IF answers[Len(cs)] THEN <<cs[Len(cs)]>> \o front ELSE front

RECURSIVE Compatible(_, _)
\* lines 132-146: the configs of cs whose supportsModel answer is true
Compatible(cs, answers) ==
    IF cs = << >> THEN << >>
    ELSE LET front == Compatible(SubSeq(cs, 1, Len(cs) - 1), answers)
         IN IF answers[Len(cs)] THEN Append(front, cs[Len(cs)]) ELSE front

\* getConfigs that falls back to all configurations whatever the option says
getConfigsAlwaysFallsBack(model, fallbackToDefault, answers) ==
    LET allConfigs == getAllConfigs
        compatibleConfigs == Compatible(allConfigs, answers)
    IN IF model = None \/ model = Some("") THEN allConfigs
       ELSE IF Len(compatibleConfigs) > 0 THEN compatibleConfigs
       ELSE allConfigs

\* getConfigs, lines 124-158, given each config's supportsModel answer
getConfigs(model, fallbackToDefault, answers) ==
    LET allConfigs == getAllConfigs
        compatibleConfigs == Compatible(allConfigs, answers)
    IN IF model = None \/ model = Some("") THEN allConfigs
       ELSE IF Len(compatibleConfigs) > 0 THEN compatibleConfigs
       ELSE IF fallbackToDefault THEN allConfigs
       ELSE << >>

\* the model filters getConfigs is called with: absent, empty, a model name
FilterModels == {None, Some(""), Some("dall-e-3")}

\* how a supportsModel call of lines 136-144 may end: true, false, or a throw
\* that the catch of line 140 logs
SupportAnswers == {"true", "false", "throws"}

\* const { model, fallbackToDefault = true } = options, line 128
FallbackOrDefault(f) == IF f = None THEN TRUE ELSE f[1]

\* getConfigs not called
GcIdle(f) ==
    /\ gc_fallback = f
    /\ gc_answers = << >>
    /\ gc_out = None

GcUnused == GcIdle(None)

\* one call getConfigs({model: svc_model, fallbackToDefault: gc_fallback}),
\* lines 124-158; supportsModel is asked only when a model is given
GcCall ==
    /\ gc_out = None
    /\ IF svc_model = None \/ svc_model = Some("")
       THEN /\ gc_answers' = << >>
            /\ gc_out' = Some(getConfigs(svc_model, FallbackOrDefault(gc_fallback), << >>))
       ELSE \E answers \in [1..Len(getAllConfigs) -> SupportAnswers] :
              /\ gc_answers' = answers
              /\ gc_out' = Some(getConfigs(svc_model, FallbackOrDefault(gc_fallback),
                                           [k \in 1..Len(getAllConfigs) |->
                                               answers[k] = "true"]))
    /\ UNCHANGED gc_fallback

\* line 68: the line of one recorded error
ErrorLine(e) == "config " \o ToString(e.configIndex) \o ": " \o e.error

\* lines.join("\n"), line 69
RECURSIVE JoinLines(_)
JoinLines(ls) ==
    IF Len(ls) = 0 THEN ""
    ELSE IF Len(ls) = 1 THEN ls[1]
    ELSE ls[1] \o "\n" \o JoinLines(Tail(ls))

\* lines 67-69: the summary of the recorded errors
Summary(errors) ==
    "all configurations failed:\n"
        \o JoinLines([k \in 1..Len(errors) |-> ErrorLine(errors[k])])

\* formatRetryErrors that writes the summary for a single error too
formatRetryErrorsAlwaysSummary(r) ==
    IF r.success THEN [kind |-> "empty", value |-> "", errors |-> << >>]
    ELSE IF Len(r.errors) = 0
         THEN [kind |-> "unknown", value |-> "unknown error", errors |-> << >>]
    ELSE [kind |-> "summary", value |-> Summary(r.errors), errors |-> r.errors]

\* formatRetryErrors, lines 56-70: the text (value), with its kind and the
\* errors it renders
formatRetryErrors(r) ==
    IF r.success THEN [kind |-> "empty", value |-> "", errors |-> << >>]
    ELSE IF Len(r.errors) = 0
         THEN [kind |-> "unknown", value |-> "unknown error", errors |-> << >>]
    ELSE IF Len(r.errors) = 1
         THEN [kind |-> "single", value |-> r.errors[1].error, errors |-> <<r.errors[1]>>]
    ELSE [kind |-> "summary", value |-> Summary(r.errors), errors |-> r.errors]

\* a retry count that falls back to 3 when the configuration sets none
RetryCountOrThree(c) == IF c.retryCount = None THEN 3 ELSE c.retryCount[1]

\* config.config.retryCount ?? 2, line 225
RetryCountOrDefault(c) == IF c.retryCount = None THEN 2 ELSE c.retryCount[1]

\* the configuration of the running attempt
CurrentConfig == configs[rwc_i + 1]

\* lines 195-205 (generateImage), 242-252 (editImage), 286-294
\* (createVariation): validate the prompt, select the configurations, and
\* call retryWithConfigs on them
SvcRequest ==
    /\ svc_pc = "idle"
    /\ IF svc_kind # "variation" /\ svc_promptTooLong
       THEN /\ svc_pc' = "thrown"
            /\ svc_out' = [kind |-> "prompt too long", value |-> "", errors |-> << >>]
            /\ UNCHANGED configs
       ELSE \E answers \in [1..Len(getAllConfigs) -> BOOLEAN] :
              LET cs == getConfigs(svc_model, TRUE, answers)
              IN IF Len(cs) = 0
                 THEN /\ svc_pc' = "thrown"
                      /\ svc_out' = [kind |-> "no configuration", value |-> "",
                                     errors |-> << >>]
                      /\ UNCHANGED configs
                 ELSE /\ svc_pc' = "retrying"
                      /\ configs' = cs
                      /\ UNCHANGED svc_out
    /\ UNCHANGED <<rwc_pc, rwc_i, result, opStarted, opOutcomes, inflight>>
    /\ UNCHANGED <<adapters, loaded, svc_kind, svc_model, svc_promptTooLong, ad_pc,
                   adapterCalls, adapterOutcomes>>
    /\ UNCHANGED wrdVars

\* retryWithConfigs is entered by the request
SvcRwcEnter ==
    /\ svc_pc = "retrying"
    /\ RwcEnter
    /\ UNCHANGED <<wrdVars, svcVars>>

\* operation(config, i) starts: for generateImage it is withRetryDelay(...,
\* retryCount ?? 2) (lines 207-225); for editImage and createVariation it is
\* the adapter operation itself (lines 254-270, 296-312)
SvcRwcInvoke ==
    /\ svc_pc = "retrying"
    /\ RwcInvoke
    /\ IF svc_kind = "generate"
       THEN /\ maxRetries' = RetryCountOrDefault(CurrentConfig)
            /\ baseDelay' = DefaultBaseDelay
            /\ wrd_pc' = "idle"
            /\ wrd_i' = 0
            /\ lastError' = None
            /\ wrdOut' = None
            /\ wrdInvoked' = 0
            /\ wrdOutcomes' = << >>
            /\ delays' = << >>
            /\ UNCHANGED ad_pc
       ELSE /\ ad_pc' = "ready"
            /\ UNCHANGED wrdVars
    /\ UNCHANGED <<adapters, loaded, svc_kind, svc_model, svc_promptTooLong, svc_pc,
                   svc_out, adapterCalls, adapterOutcomes>>

\* generateImage: withRetryDelay is entered
SvcWrdEnter ==
    /\ svc_pc = "retrying" /\ svc_kind = "generate" /\ rwc_pc = "await"
    /\ WrdEnter
    /\ UNCHANGED <<rwcVars, svcVars>>

\* generateImage: the loop test of withRetryDelay; when it passes, the
\* wrapped operation starts
SvcWrdLoopTest ==
    /\ svc_pc = "retrying" /\ svc_kind = "generate" /\ rwc_pc = "await"
    /\ WrdLoopTest
    /\ ad_pc' = IF wrd_pc' = "await" THEN "ready" ELSE ad_pc
    /\ UNCHANGED <<adapters, loaded, svc_kind, svc_model, svc_promptTooLong, svc_pc,
                   svc_out, adapterCalls, adapterOutcomes>>
    /\ UNCHANGED rwcVars

\* generateImage: the backoff wait ends
SvcWrdDelayElapsed ==
    /\ svc_pc = "retrying" /\ svc_kind = "generate" /\ rwc_pc = "await"
    /\ WrdDelayElapsed
    /\ UNCHANGED <<rwcVars, svcVars>>

\* what supportsModel answered in processWithModel: it is not asked when
\* the request names no model (line 175)
SupportsAnswer(supports) ==
    IF svc_model = None THEN "unasked" ELSE IF supports THEN "true" ELSE "false"

\* AdapterCall that drops an unsupported model from the caller's options
\* themselves: once dropped, the model stays dropped for the later attempts
AdapterCallDropSticks ==
    /\ svc_pc = "retrying"
    /\ ad_pc = "ready"
    /\ \E supports \in BOOLEAN :
         LET dropped == \E k \in DOMAIN adapterCalls : adapterCalls[k].model = None
             finalModel == IF (svc_model # None /\ ~supports) \/ dropped
                           THEN None ELSE svc_model
         IN adapterCalls' = Append(adapterCalls,
                                   [pos |-> rwc_i,
                                    index |-> CurrentConfig.index,
                                    type |-> CurrentConfig.type,
                                    kind |-> svc_kind,
                                    supports |-> SupportsAnswer(supports),
                                    model |-> finalModel])
    /\ ad_pc' = "called"
    /\ UNCHANGED <<adapters, loaded, svc_kind, svc_model, svc_promptTooLong, svc_pc,
                   svc_out, adapterOutcomes>>
    /\ UNCHANGED <<rwcVars, wrdVars>>

\* the per-config operation up to the adapter call (lines 209-223, 255-268,
\* 297-310): look the adapter up (it is registered: the configs come from
\* getAllConfigs), drop a model the config does not support
\* (processWithModel, lines 168-188; supports is supportsModel's answer),
\* call the adapter
AdapterCall ==
    /\ svc_pc = "retrying"
    /\ ad_pc = "ready"
    /\ \E supports \in BOOLEAN :
         LET finalModel == IF svc_model # None /\ ~supports THEN None ELSE svc_model
         IN adapterCalls' = Append(adapterCalls,
                                   [pos |-> rwc_i,
                                    index |-> CurrentConfig.index,
                                    type |-> CurrentConfig.type,
                                    kind |-> svc_kind,
                                    supports |-> SupportsAnswer(supports),
                                    model |-> finalModel])
    /\ ad_pc' = "called"
    /\ UNCHANGED <<adapters, loaded, svc_kind, svc_model, svc_promptTooLong, svc_pc,
                   svc_out, adapterOutcomes>>
    /\ UNCHANGED <<rwcVars, wrdVars>>

\* how the per-config operation's end reaches its caller: withRetryDelay for
\* generateImage, retryWithConfigs for editImage and createVariation
OperationEndsOk(v) ==
    IF svc_kind = "generate"
    THEN WrdResolve(v) /\ UNCHANGED rwcVars
    ELSE RwcResolve(v) /\ UNCHANGED wrdVars

OperationEndsThrowing(e) ==
    IF svc_kind = "generate"
    THEN WrdReject(e) /\ UNCHANGED rwcVars
    ELSE RwcReject(e) /\ UNCHANGED wrdVars

\* the adapter call is createVariation or generateImage of the Doubao adapter,
\* whose code is part of the request (DoubaoVariationThrows,
\* DoubaoGenerateEntered .. DoubaoGenerateEnds); every other adapter call is
\* left abstract: it returns or throws
IsDoubaoVariation == svc_kind = "variation" /\ CurrentConfig.type = "doubao"

IsDoubaoGenerate == svc_kind = "generate" /\ CurrentConfig.type = "doubao"

\* the adapter returned a response; createImageElements(response) is returned
AdapterReturns ==
    /\ svc_pc = "retrying"
    /\ ad_pc = "called"
    /\ ~IsDoubaoVariation /\ ~IsDoubaoGenerate
    /\ \E v \in Values :
         /\ adapterOutcomes' = Append(adapterOutcomes,
                                      [ok |-> TRUE, value |-> v, error |-> NoError])
         /\ OperationEndsOk(v)
    /\ ad_pc' = "idle"
    /\ UNCHANGED <<adapters, loaded, svc_kind, svc_model, svc_promptTooLong, svc_pc,
                   svc_out, adapterCalls>>

\* the adapter call threw
AdapterThrows ==
    /\ svc_pc = "retrying"
    /\ ad_pc = "called"
    /\ ~IsDoubaoVariation /\ ~IsDoubaoGenerate
    /\ \E e \in AdapterThrown :
         /\ adapterOutcomes' = Append(adapterOutcomes,
                                      [ok |-> FALSE, value |-> "", error |-> e])
         /\ OperationEndsThrowing(e)
    /\ ad_pc' = "idle"
    /\ UNCHANGED <<adapters, loaded, svc_kind, svc_model, svc_promptTooLong, svc_pc,
                   svc_out, adapterCalls>>

\* generateImage: withRetryDelay returned, so operation(config, i) resolves
SvcWrdReturned ==
    /\ svc_pc = "retrying" /\ svc_kind = "generate"
    /\ wrd_pc = "returned"
    /\ RwcResolve(wrdOut[1])
    /\ wrd_pc' = "idle"
    /\ UNCHANGED <<maxRetries, baseDelay, wrd_i, lastError, wrdOut, wrdInvoked,
                   wrdOutcomes, delays>>
    /\ UNCHANGED svcVars

\* generateImage: withRetryDelay threw, so operation(config, i) rejects
SvcWrdThrown ==
    /\ svc_pc = "retrying" /\ svc_kind = "generate"
    /\ wrd_pc = "thrown"
    /\ RwcReject(IF wrdOut = None THEN NoError ELSE wrdOut[1])
    /\ wrd_pc' = "idle"
    /\ UNCHANGED <<maxRetries, baseDelay, wrd_i, lastError, wrdOut, wrdInvoked,
                   wrdOutcomes, delays>>
    /\ UNCHANGED svcVars

\* the loop of retryWithConfigs ends without a success
SvcRwcExit ==
    /\ svc_pc = "retrying"
    /\ RwcExit
    /\ UNCHANGED <<wrdVars, svcVars>>

\* lines 229-233, 274-278, 316-320: return the elements or throw the
\* formatted errors
SvcFinish ==
    /\ svc_pc = "retrying"
    /\ rwc_pc = "done"
    /\ IF ~result.success \/ result.result = None
       THEN /\ svc_pc' = "thrown"
            /\ svc_out' = formatRetryErrors(result)
       ELSE /\ svc_pc' = "returned"
            /\ svc_out' = [kind |-> "elements", value |-> result.result[1],
                           errors |-> << >>]
    /\ UNCHANGED <<adapters, loaded, svc_kind, svc_model, svc_promptTooLong, ad_pc,
                   adapterCalls, adapterOutcomes>>
    /\ UNCHANGED <<rwcVars, wrdVars>>

----------------------------------------------------------------------------
(* ImageAdapter: getModels, supportsModel, clearModelCache *)

\* line 17
CACHE_DURATION == 5 * 60 * 1000

\* the configurations whose model lists are looked up
CacheConfigs ==
    { [type |-> "openai", index |-> 0],
      [type |-> "openai", index |-> 1],
      [type |-> "doubao", index |-> 2] }

Types == {"openai", "doubao"}

\* line 42: `${config.type}_${config.index}`
cacheKey(c) == <<c.type, c.index>>

CacheKeys == { cacheKey(c) : c \in CacheConfigs }

\* the concurrent callers of getModels
Callers == {1, 2}

\* the position of a model name in the order of Array.prototype.sort
NameRank(m) ==
    CASE m = "dall-e-2" -> 1
      [] m = "dall-e-3" -> 2
      [] m = "flux" -> 3
      [] m = "gpt-image-1" -> 4
      [] m = "high_aes_general_v30l_zt2i" -> 5
      [] m = "ideogram" -> 6
      [] m = "seededit_v3.0" -> 7
      [] m = "stable-diffusion" -> 8

\* the model names of the two providers
ModelNames ==
    {"dall-e-2", "dall-e-3", "flux", "gpt-image-1", "high_aes_general_v30l_zt2i",
     "ideogram", "seededit_v3.0", "stable-diffusion"}

\* getDefaultModels: OpenAIAdapter (part_004 lines 51-60), DoubaoAdapter
\* (doubao.ts lines 62-64)
getDefaultModels(type) ==
    IF type = "openai"
    THEN <<"dall-e-2", "dall-e-3", "gpt-image-1", "ideogram", "flux", "stable-diffusion">>
    ELSE <<"high_aes_general_v30l_zt2i", "seededit_v3.0">>

\* the lists _getModels may return: for openai the ids of the response that
\* are default models, in response order (part_004 lines 41-44), or the
\* defaults when the response holds no list (lines 45-48); for doubao the
\* defaults (doubao.ts lines 56-60)
FetchResults(type) ==
    IF type = "openai"
    THEN { << >>, <<"gpt-image-1", "dall-e-2">>, getDefaultModels("openai") }
    ELSE { getDefaultModels("doubao") }

\* whether _getModels may throw: the openai adapter's HTTP call may, the
\* doubao adapter makes none
FetchMayFail(type) == type = "openai"

Range(f) == { f[x] : x \in DOMAIN f }

RECURSIVE SortedSeq(_)
\* the elements of the set S in sort() order
SortedSeq(S) ==
    IF S = {} THEN << >>
    ELSE LET m == CHOOSE x \in S : \A y \in S : NameRank(x) <= NameRank(y)
         IN <<m>> \o SortedSeq(S \ {m})

\* lines 54-56: Array.from(new Set([...existingModels, ...models])).sort()
MergeModels(existingModels, models) == SortedSeq(Range(existingModels) \cup Range(models))

FreshInclusive(entry, t) == t - entry.timestamp <= CACHE_DURATION

\* line 45: Date.now() - cached.timestamp < this.CACHE_DURATION
Fresh(entry, t) == t - entry.timestamp < CACHE_DURATION

\* a caller with no call in progress
GmIdle ==
    [pc |-> "idle", config |-> [type |-> "openai", index |-> 0], cached |-> None, at |-> 0]

\* a completed call: the config, the entry read at line 43, the time of the
\* call, whether _getModels was called, whether it threw, the list returned;
\* threw: the call ended by throwing to its caller (getModels has no such
\* path: line 46, line 70, lines 76 and 79 all return); raw: the list
\* _getModels returned at line 50, if it returned
Returned(call, fetched, failed, ret) ==
    [done |-> TRUE, config |-> call.config, cached |-> call.cached, at |-> call.at,
     fetched |-> fetched, failed |-> failed, ret |-> ret, threw |-> FALSE, raw |-> None]

NoCall ==
    [done |-> FALSE, config |-> [type |-> "openai", index |-> 0], cached |-> None, at |-> 0,
     fetched |-> FALSE, failed |-> FALSE, ret |-> << >>, threw |-> FALSE, raw |-> None]

\* the adapters as constructed: empty caches, empty registry
CacheInit ==
    /\ now = 0
    /\ ticks = 0
    /\ modelCache = [k \in CacheKeys |-> None]
    /\ registry = [t \in Types |-> None]
    /\ schemaModels = [t \in Types |-> None]
    /\ gm = [c \in Callers |-> GmIdle]
    /\ lastCall = NoCall
    /\ callsMade = 0

\* the clock advances
Tick ==
    /\ ticks < MaxTicks
    /\ \E d \in {1, CACHE_DURATION - 1} : now' = now + d
    /\ ticks' = ticks + 1
    /\ UNCHANGED <<modelCache, registry, schemaModels, gm, lastCall, callsMade>>

\* lines 41-50: caller c calls getModels(cfg); a fresh entry is returned,
\* otherwise _getModels(config) is called and awaited
GmEnter(c, cfg) ==
    /\ gm[c].pc = "idle"
    /\ callsMade < MaxCalls
    /\ callsMade' = callsMade + 1
    /\ LET cached == modelCache[cacheKey(cfg)]
           call == [pc |-> "fetching", config |-> cfg, cached |-> cached, at |-> now]
       IN IF cached # None /\ Fresh(cached[1], now)
          THEN /\ lastCall' = Returned(call, FALSE, FALSE, cached[1].models)
               /\ UNCHANGED gm
          ELSE /\ gm' = [gm EXCEPT ![c] = call]
               /\ UNCHANGED lastCall
    /\ UNCHANGED <<now, ticks, modelCache, registry, schemaModels>>

\* GmFetchOk that merges the fetched list into the entry it replaces
GmFetchOkMergesStale(c, fetchedModels) ==
    /\ gm[c].pc = "fetching"
    /\ LET type == gm[c].config.type
           models == IF gm[c].cached # None
                     THEN MergeModels(gm[c].cached[1].models, fetchedModels)
                     ELSE fetchedModels
       IN /\ schemaModels' = IF Len(models) > 0
                             THEN [schemaModels EXCEPT ![type] = Some(models)]
                             ELSE schemaModels
          /\ modelCache' = [modelCache EXCEPT ![cacheKey(gm[c].config)] =
                              Some([models |-> models, timestamp |-> now])]
          /\ lastCall' = [Returned(gm[c], TRUE, FALSE, models)
                             EXCEPT !.raw = Some(fetchedModels)]
    /\ gm' = [gm EXCEPT ![c] = GmIdle]
    /\ UNCHANGED <<now, ticks, callsMade, registry>>

\* lines 50-70: _getModels returned fetchedModels; merge into the registry
\* entry when there is one, set the schema, store the entry, return the list
GmFetchOk(c, fetchedModels) ==
    /\ gm[c].pc = "fetching"
    /\ LET type == gm[c].config.type
           existingModels == registry[type]
           models == IF existingModels # None
                     THEN MergeModels(existingModels[1], fetchedModels)
                     ELSE fetchedModels
       IN /\ registry' = IF existingModels # None
                         THEN [registry EXCEPT ![type] = Some(models)]
                         ELSE registry
          /\ schemaModels' = IF Len(models) > 0
                             THEN [schemaModels EXCEPT ![type] = Some(models)]
                             ELSE schemaModels
          /\ modelCache' = [modelCache EXCEPT ![cacheKey(gm[c].config)] =
                              Some([models |-> models, timestamp |-> now])]
          /\ lastCall' = [Returned(gm[c], TRUE, FALSE, models)
                             EXCEPT !.raw = Some(fetchedModels)]
    /\ gm' = [gm EXCEPT ![c] = GmIdle]
    /\ UNCHANGED <<now, ticks, callsMade>>

\* GmFetchFail that drops the stale entry and answers with the defaults
GmFetchFailDropsEntry(c) ==
    /\ gm[c].pc = "fetching"
    /\ lastCall' = Returned(gm[c], TRUE, TRUE, getDefaultModels(gm[c].config.type))
    /\ modelCache' = [modelCache EXCEPT ![cacheKey(gm[c].config)] = None]
    /\ gm' = [gm EXCEPT ![c] = GmIdle]
    /\ UNCHANGED <<now, ticks, registry, schemaModels, callsMade>>

\* GmFetchFail that stores the list it returns as a new entry
GmFetchFailStoresReturned(c) ==
    /\ gm[c].pc = "fetching"
    /\ LET ret == IF gm[c].cached # None
                  THEN gm[c].cached[1].models
                  ELSE getDefaultModels(gm[c].config.type)
       IN /\ lastCall' = Returned(gm[c], TRUE, TRUE, ret)
          /\ modelCache' = [modelCache EXCEPT ![cacheKey(gm[c].config)] =
                                Some([models |-> ret, timestamp |-> now])]
    /\ gm' = [gm EXCEPT ![c] = GmIdle]
    /\ UNCHANGED <<now, ticks, registry, schemaModels, callsMade>>

\* GmFetchFail without the catch of line 71: the failure reaches the caller
GmFetchFailPropagates(c) ==
    /\ gm[c].pc = "fetching"
    /\ lastCall' = [Returned(gm[c], TRUE, TRUE, << >>) EXCEPT !.threw = TRUE]
    /\ gm' = [gm EXCEPT ![c] = GmIdle]
    /\ UNCHANGED <<now, ticks, modelCache, registry, schemaModels, callsMade>>

\* lines 71-80: _getModels threw; the entry read at line 43 is returned if
\* there was one, the default models otherwise
GmFetchFail(c) ==
    /\ gm[c].pc = "fetching"
    /\ lastCall' = Returned(gm[c], TRUE, TRUE,
                            IF gm[c].cached # None
                            THEN gm[c].cached[1].models
                            ELSE getDefaultModels(gm[c].config.type))
    /\ gm' = [gm EXCEPT ![c] = GmIdle]
    /\ UNCHANGED <<now, ticks, modelCache, registry, schemaModels, callsMade>>

\* ClearModelCache that removes, for a config, every entry of its type
ClearModelCacheByType(optConfig) ==
    /\ modelCache' = IF optConfig # None
                     THEN [k \in CacheKeys |->
                              IF k[1] = optConfig[1].type THEN None ELSE modelCache[k]]
                     ELSE [k \in CacheKeys |-> None]
    /\ modelCache' # modelCache
    /\ UNCHANGED <<now, ticks, registry, schemaModels, gm, lastCall, callsMade>>

\* lines 93-100: clearModelCache(config) and clearModelCache()
ClearModelCache(optConfig) ==
    /\ modelCache' = IF optConfig # None
                     THEN [modelCache EXCEPT ![cacheKey(optConfig[1])] = None]
                     ELSE [k \in CacheKeys |-> None]
    /\ modelCache' # modelCache
    /\ UNCHANGED <<now, ticks, registry, schemaModels, gm, lastCall, callsMade>>

GetModelsCalled == \E c \in Callers : \E cfg \in CacheConfigs : GmEnter(c, cfg)

FetchSucceeds ==
    \E c \in Callers : \E ms \in FetchResults(gm[c].config.type) : GmFetchOk(c, ms)

FetchFails == \E c \in Callers : FetchMayFail(gm[c].config.type) /\ GmFetchFail(c)

CacheCleared == \E oc \in {None} \cup { Some(cfg) : cfg \in CacheConfigs } : ClearModelCache(oc)

----------------------------------------------------------------------------
(* DoubaoAdapter: generateImage, editImage, createVariation.  The messages *)
(* of the errors are rendered in English.                                  *)

\* the two models of the provider (getDefaultModels, lines 62-64)
SyncModel == "high_aes_general_v30l_zt2i"
EditModel == "seededit_v3.0"

\* JavaScript truthiness of an optional string: undefined and "" are falsy
TruthyStr(x) == x # None /\ x[1] # ""

\* a || b on optional strings
JsOrStr(a, b) == IF TruthyStr(a) THEN a ELSE b

\* errorMapping, lines 24-50: the codes of the table
MappedCodes ==
    {10000, 50411, 50511, 50412, 50512, 50413, 50429, 50430, 50500, 50501, 100006, 100010}

\* errorMapping[code].message
MappedMessage(code) ==
    CASE code = 10000 -> "request succeeded"
      [] code = 50411 -> "input image rejected by content review, use another image"
      [] code = 50511 -> "output image rejected by content review, try generating again"
      [] code = 50412 -> "input text rejected by content review, change the text"
      [] code = 50512 -> "output text rejected by content review"
      [] code = 50413 -> "input text holds sensitive or copyrighted words, change the text"
      [] code = 50429 -> "QPS limit exceeded, retry later"
      [] code = 50430 -> "concurrency limit exceeded, retry later"
      [] code = 50500 -> "internal service error, retry later"
      [] code = 50501 -> "algorithm service error, retry later"
      [] code = 100006 -> "request signature expired, check the clock"
      [] code = 100010 -> "request signature mismatch, check the keys"

\* errorMapping[code].retryable
MappedRetryable(code) == code \in {50511, 50429, 50430, 50500, 50501}

\* formatDoubaoError(errorCode, originalMessage), lines 66-90
formatDoubaoError(errorCode, originalMessage) ==
    IF errorCode \in MappedCodes
    THEN MappedMessage(errorCode) \o " (code: " \o ToString(errorCode) \o ")"
    ELSE IF errorCode = 401 THEN "API key verification failed, check the configuration"
    ELSE IF errorCode = 403 THEN "API access denied, check the permissions"
    ELSE IF errorCode = 404 THEN "API endpoint does not exist, check the configuration"
    ELSE IF errorCode = 500 THEN "internal server error, retry later"
    ELSE "doubao API error: "
            \o (IF originalMessage # "" THEN originalMessage ELSE "unknown error")
            \o " (code: " \o ToString(errorCode) \o ")"

\* new Error(msg)
NewError(msg) == Thrown(TRUE, msg, "Error: " \o msg, None, None)

\* the error syncGenerateImage throws for a response refused with code
\* (lines 194-197)
DoubaoCodeError(code) ==
    NewError("doubao text-to-image failed: " \o formatDoubaoError(code, ""))

\* the rejection of an HTTP call that got no response
HttpRejection == NewError("connect ETIMEDOUT")

\* the HTTP status and the provider code of a response, and its message
HttpStatuses == {200, 500}
ProviderCodes == {10000, 50411, 50429, 401, 12345}
ProviderMessages == {"", "quota used up"}

\* the status a task result reports (types.ts, DoubaoTaskResultResponse)
TaskStatuses == {"in_queue", "generating", "done", "not_found", "expired"}

\* a response: HTTP status, data.code, data.message, data.data.status (of a
\* task result), and the payload (images, or the task id)
Response(st, code, msg, ts, payload) ==
    [status |-> st, code |-> code, message |-> msg, taskStatus |-> ts, payload |-> payload]

\* the response passes the test of lines 193, 234 and 304
Accepted(r) == ~(r.status # 200 \/ r.code # 10000)

\* the responses that fail that test
RefusedResponses ==
    { Response(st, code, msg, "", "") :
        st \in HttpStatuses, code \in ProviderCodes, msg \in ProviderMessages }
    \ { Response(200, 10000, msg, "", "") : msg \in ProviderMessages }

\* the responses of CVProcess, CVSync2AsyncSubmitTask and CVSync2AsyncGetResult
ProcessResponses == RefusedResponses \cup { Response(200, 10000, "", "", v) : v \in Values }
SubmitResponses == RefusedResponses \cup { Response(200, 10000, "", "", "task-1") }
ResultResponses ==
    RefusedResponses
    \cup { Response(200, 10000, "", ts, "") : ts \in TaskStatuses \ {"done"} }
    \cup { Response(200, 10000, "", "done", v) : v \in Values }

\* line 249: attempt < 30
MaxPollAttempts == 30

NoResponses == [process |-> None, submit |-> None, result |-> None]
NoHttp == [process |-> 0, submit |-> 0, result |-> 0]

\* the adapter before a call of operation kind with the given options and config
DbIdle(kind, model, defaultModel, defaultEditModel, image) ==
    /\ db_kind = kind
    /\ db_model = model
    /\ db_defaultModel = defaultModel
    /\ db_defaultEditModel = defaultEditModel
    /\ db_image = image
    /\ db_pc = "idle"
    /\ db_attempt = 0
    /\ db_out = None
    /\ db_http = NoHttp
    /\ db_reqKey = None
    /\ db_resp = NoResponses
    /\ db_polled = [in_queue |-> 0, generating |-> 0]

DbUnused == DbIdle("generate", None, None, None, "ok")

\* a call of operation kind enters the adapter with options.model model, on a
\* config that sets no default model
DbEnter(kind, model) ==
    /\ db_kind' = kind
    /\ db_model' = model
    /\ db_defaultModel' = None
    /\ db_defaultEditModel' = None
    /\ db_image' = "ok"
    /\ db_pc' = "idle"
    /\ db_attempt' = 0
    /\ db_out' = None
    /\ db_http' = NoHttp
    /\ db_reqKey' = None
    /\ db_resp' = NoResponses
    /\ db_polled' = [in_queue |-> 0, generating |-> 0]

\* the call ends by returning v / by throwing e
DbReturn(v) ==
    /\ db_pc' = "returned"
    /\ db_out' = Some([ok |-> TRUE, value |-> v, error |-> NoError])

DbThrow(e) ==
    /\ db_pc' = "thrown"
    /\ db_out' = Some([ok |-> FALSE, value |-> "", error |-> e])

\* an HTTP call with the given Action is sent with req_key key
DbSend(action, pc, key) ==
    /\ db_pc' = pc
    /\ db_http' = [db_http EXCEPT ![action] = @ + 1]
    /\ db_reqKey' = Some(key)
    /\ UNCHANGED db_out

\* DbGenerateImage that sends every model but the edit model to CVProcess
DbGenerateImageAnyModel ==
    /\ db_pc = "idle" /\ db_kind = "generate"
    /\ LET model == JsOrStr(db_model, JsOrStr(db_defaultModel, Some(SyncModel)))[1]
       IN IF model = EditModel
          THEN /\ DbThrow(NewError("seededit_v3.0 only supports image editing"))
               /\ UNCHANGED <<db_http, db_reqKey>>
          ELSE DbSend("process", "process", model)
    /\ UNCHANGED <<db_kind, db_model, db_defaultModel, db_defaultEditModel, db_image,
                   db_attempt, db_resp, db_polled>>

\* generateImage, lines 92-125, up to the HTTP call of syncGenerateImage
\* (lines 175-191)
DbGenerateImage ==
    /\ db_pc = "idle" /\ db_kind = "generate"
    /\ LET model == JsOrStr(db_model, JsOrStr(db_defaultModel, Some(SyncModel)))[1]
       IN IF model = EditModel
          THEN /\ DbThrow(NewError("seededit_v3.0 only supports image editing"))
               /\ UNCHANGED <<db_http, db_reqKey>>
          ELSE IF model = SyncModel
          THEN DbSend("process", "process", model)
          ELSE /\ DbThrow(NewError("unsupported model: " \o model))
               /\ UNCHANGED <<db_http, db_reqKey>>
    /\ UNCHANGED <<db_kind, db_model, db_defaultModel, db_defaultEditModel, db_image,
                   db_attempt, db_resp, db_polled>>

\* syncGenerateImage, lines 193-200: the response of CVProcess arrived
DbProcessResponds(r) ==
    /\ db_pc = "process"
    /\ db_resp' = [db_resp EXCEPT !.process = Some(r)]
    /\ IF ~Accepted(r)
       THEN DbThrow(NewError("doubao text-to-image failed: "
                                \o formatDoubaoError(r.code, r.message)))
       ELSE DbReturn(r.payload)
    /\ UNCHANGED <<db_kind, db_model, db_defaultModel, db_defaultEditModel, db_image,
                   db_attempt, db_http, db_reqKey, db_polled>>

\* editImage, lines 127-159, up to the HTTP call of submitTask (lines 220-232)
DbEditImage ==
    /\ db_pc = "idle" /\ db_kind = "edit"
    /\ LET model == JsOrStr(db_model, JsOrStr(db_defaultEditModel, Some(EditModel)))[1]
       IN IF db_image = "not an array"
          THEN /\ DbThrow(NewError("image editing needs image data"))
               /\ UNCHANGED <<db_http, db_reqKey>>
          ELSE IF db_image = "other format"
          THEN /\ DbThrow(NewError("doubao image editing takes JPEG and PNG only"))
               /\ UNCHANGED <<db_http, db_reqKey>>
          ELSE DbSend("submit", "submit", model)
    /\ UNCHANGED <<db_kind, db_model, db_defaultModel, db_defaultEditModel, db_image,
                   db_attempt, db_resp, db_polled>>

\* DbCreateVariation that asks the provider before it throws
DbCreateVariationAfterCall ==
    /\ db_pc = "idle" /\ db_kind = "variation"
    /\ DbThrow(NewError("doubao does not support image variations"))
    /\ db_http' = [db_http EXCEPT !.process = @ + 1]
    /\ UNCHANGED <<db_kind, db_model, db_defaultModel, db_defaultEditModel, db_image,
                   db_attempt, db_reqKey, db_resp, db_polled>>

\* createVariation, lines 161-169
DbCreateVariation ==
    /\ db_pc = "idle" /\ db_kind = "variation"
    /\ DbThrow(NewError("doubao does not support image variations"))
    /\ UNCHANGED <<db_kind, db_model, db_defaultModel, db_defaultEditModel, db_image,
                   db_attempt, db_http, db_reqKey, db_resp, db_polled>>

\* DbSubmitResponds that tests the HTTP status alone
DbSubmitRespondsIgnoresCode(r) ==
    /\ db_pc = "submit"
    /\ db_resp' = [db_resp EXCEPT !.submit = Some(r)]
    /\ IF r.status # 200
       THEN DbThrow(NewError("doubao task submission failed: "
                                \o formatDoubaoError(r.code, r.message)))
       ELSE db_pc' = "poll" /\ UNCHANGED db_out
    /\ db_attempt' = 0
    /\ UNCHANGED <<db_kind, db_model, db_defaultModel, db_defaultEditModel, db_image,
                   db_http, db_reqKey, db_polled>>

\* submitTask, lines 234-241: the response of the submit call arrived; when
\* it is accepted pollTaskResult starts (lines 208, 249)
DbSubmitResponds(r) ==
    /\ db_pc = "submit"
    /\ db_resp' = [db_resp EXCEPT !.submit = Some(r)]
    /\ IF ~Accepted(r)
       THEN DbThrow(NewError("doubao task submission failed: "
                                \o formatDoubaoError(r.code, r.message)))
       ELSE db_pc' = "poll" /\ UNCHANGED db_out
    /\ db_attempt' = 0
    /\ UNCHANGED <<db_kind, db_model, db_defaultModel, db_defaultEditModel, db_image,
                   db_http, db_reqKey, db_polled>>

\* DbPollLoopTest with the test attempt <= 30
DbPollLoopTestInclusive ==
    /\ db_pc = "poll"
    /\ IF db_attempt <= MaxPollAttempts
       THEN DbSend("result", "query", db_reqKey[1])
       ELSE /\ DbThrow(NewError("task processing timed out"))
            /\ UNCHANGED <<db_http, db_reqKey>>
    /\ UNCHANGED <<db_kind, db_model, db_defaultModel, db_defaultEditModel, db_image,
                   db_attempt, db_resp, db_polled>>

\* pollTaskResult, line 249 (loop test), then line 251 and the HTTP call of
\* queryTaskResult (lines 281-302), or line 273 when the test fails
DbPollLoopTest ==
    /\ db_pc = "poll"
    /\ IF db_attempt < MaxPollAttempts
       THEN DbSend("result", "query", db_reqKey[1])
       ELSE /\ DbThrow(NewError("task processing timed out"))
            /\ UNCHANGED <<db_http, db_reqKey>>
    /\ UNCHANGED <<db_kind, db_model, db_defaultModel, db_defaultEditModel, db_image,
                   db_attempt, db_resp, db_polled>>

\* the error thrown inside the try of line 250 as the catch of lines 265-270
\* throws it again
WrapQueryError(e) == NewError("query task result failed: " \o e.message \o ", retry later")

\* DbQueryResponds that keeps waiting on done
DbQueryRespondsDoneWaits(r) ==
    /\ db_pc = "query"
    /\ db_resp' = [db_resp EXCEPT !.result = Some(r)]
    /\ IF ~Accepted(r)
       THEN /\ DbThrow(WrapQueryError(NewError("query task result failed: "
                                                  \o formatDoubaoError(r.code, r.message))))
            /\ UNCHANGED db_polled
       ELSE IF r.taskStatus = "not_found" \/ r.taskStatus = "expired"
       THEN /\ DbThrow(WrapQueryError(NewError("task not found or expired")))
            /\ UNCHANGED db_polled
       ELSE /\ db_pc' = "wait"
            /\ db_polled' = IF r.taskStatus \in DOMAIN db_polled
                            THEN [db_polled EXCEPT ![r.taskStatus] = @ + 1] ELSE db_polled
            /\ UNCHANGED db_out
    /\ UNCHANGED <<db_kind, db_model, db_defaultModel, db_defaultEditModel, db_image,
                   db_attempt, db_http, db_reqKey>>

\* DbQueryResponds that keeps polling on expired
DbQueryRespondsExpiredPending(r) ==
    /\ db_pc = "query"
    /\ db_resp' = [db_resp EXCEPT !.result = Some(r)]
    /\ IF ~Accepted(r)
       THEN /\ DbThrow(WrapQueryError(NewError("query task result failed: "
                                                  \o formatDoubaoError(r.code, r.message))))
            /\ UNCHANGED db_polled
       ELSE IF r.taskStatus = "done"
       THEN DbReturn(r.payload) /\ UNCHANGED db_polled
       ELSE IF r.taskStatus = "not_found"
       THEN /\ DbThrow(WrapQueryError(NewError("task not found, check the task id")))
            /\ UNCHANGED db_polled
       ELSE /\ db_pc' = "wait"
            /\ db_polled' = IF r.taskStatus \in DOMAIN db_polled
                            THEN [db_polled EXCEPT ![r.taskStatus] = @ + 1] ELSE db_polled
            /\ UNCHANGED db_out
    /\ UNCHANGED <<db_kind, db_model, db_defaultModel, db_defaultEditModel, db_image,
                   db_attempt, db_http, db_reqKey>>

\* DbQueryResponds that waits and queries again after a refused result query
DbQueryRespondsToleratesRefusal(r) ==
    /\ db_pc = "query"
    /\ db_resp' = [db_resp EXCEPT !.result = Some(r)]
    /\ IF ~Accepted(r)
       THEN db_pc' = "wait" /\ UNCHANGED <<db_polled, db_out>>
       ELSE IF r.taskStatus = "done"
       THEN DbReturn(r.payload) /\ UNCHANGED db_polled
       ELSE IF r.taskStatus = "not_found" \/ r.taskStatus = "expired"
       THEN /\ DbThrow(WrapQueryError(NewError(
                         IF r.taskStatus = "not_found"
                         THEN "task not found, check the task id"
                         ELSE "task expired, submit the task again")))
            /\ UNCHANGED db_polled
       ELSE /\ db_pc' = "wait"
            /\ db_polled' = [db_polled EXCEPT ![r.taskStatus] = @ + 1]
            /\ UNCHANGED db_out
    /\ UNCHANGED <<db_kind, db_model, db_defaultModel, db_defaultEditModel, db_image,
                   db_attempt, db_http, db_reqKey>>

\* DbQueryResponds that submits the task again when it has expired
DbQueryRespondsResubmits(r) ==
    /\ db_pc = "query"
    /\ db_resp' = [db_resp EXCEPT !.result = Some(r)]
    /\ IF ~Accepted(r)
       THEN /\ DbThrow(WrapQueryError(NewError("query task result failed: "
                                                  \o formatDoubaoError(r.code, r.message))))
            /\ UNCHANGED <<db_polled, db_http, db_reqKey>>
       ELSE IF r.taskStatus = "done"
       THEN DbReturn(r.payload) /\ UNCHANGED <<db_polled, db_http, db_reqKey>>
       ELSE IF r.taskStatus = "not_found"
       THEN /\ DbThrow(WrapQueryError(NewError("task not found, check the task id")))
            /\ UNCHANGED <<db_polled, db_http, db_reqKey>>
       ELSE IF r.taskStatus = "expired"
       THEN DbSend("submit", "submit", db_reqKey[1]) /\ UNCHANGED db_polled
       ELSE /\ db_pc' = "wait"
            /\ db_polled' = [db_polled EXCEPT ![r.taskStatus] = @ + 1]
            /\ UNCHANGED <<db_out, db_http, db_reqKey>>
    /\ UNCHANGED <<db_kind, db_model, db_defaultModel, db_defaultEditModel, db_image,
                   db_attempt>>

\* queryTaskResult, lines 304-311, and pollTaskResult, lines 253-270: the
\* response of the result query arrived
DbQueryResponds(r) ==
    /\ db_pc = "query"
    /\ db_resp' = [db_resp EXCEPT !.result = Some(r)]
    /\ IF ~Accepted(r)
       THEN /\ DbThrow(WrapQueryError(NewError("query task result failed: "
                                                  \o formatDoubaoError(r.code, r.message))))
            /\ UNCHANGED db_polled
       ELSE IF r.taskStatus = "done"
       THEN DbReturn(r.payload) /\ UNCHANGED db_polled
       ELSE IF r.taskStatus = "not_found" \/ r.taskStatus = "expired"
       THEN /\ DbThrow(WrapQueryError(NewError(
                         IF r.taskStatus = "not_found"
                         THEN "task not found, check the task id"
                         ELSE "task expired, submit the task again")))
            /\ UNCHANGED db_polled
       ELSE /\ db_pc' = "wait"
            /\ db_polled' = [db_polled EXCEPT ![r.taskStatus] = @ + 1]
            /\ UNCHANGED db_out
    /\ UNCHANGED <<db_kind, db_model, db_defaultModel, db_defaultEditModel, db_image,
                   db_attempt, db_http, db_reqKey>>

\* line 264 completes, then attempt++ of line 249
DbWaitElapsed ==
    /\ db_pc = "wait"
    /\ db_attempt' = db_attempt + 1
    /\ db_pc' = "poll"
    /\ UNCHANGED <<db_kind, db_model, db_defaultModel, db_defaultEditModel, db_image,
                   db_out, db_http, db_reqKey, db_resp, db_polled>>

\* this.ctx.http rejects: from syncGenerateImage and submitTask the rejection
\* reaches the caller as it is; from queryTaskResult the catch of lines
\* 265-270 replaces it
DbHttpRejects ==
    /\ db_pc \in {"process", "submit", "query"}
    /\ DbThrow(IF db_pc = "query" THEN WrapQueryError(HttpRejection) ELSE HttpRejection)
    /\ UNCHANGED <<db_kind, db_model, db_defaultModel, db_defaultEditModel, db_image,
                   db_attempt, db_http, db_reqKey, db_resp, db_polled>>

DbProcessResponse == \E r \in ProcessResponses : DbProcessResponds(r)
DbSubmitResponse == \E r \in SubmitResponses : DbSubmitResponds(r)
DbResultResponse == \E r \in ResultResponses : DbQueryResponds(r)

----------------------------------------------------------------------------
(* DoubaoAdapter: buildHeaders and sign *)

\* hash(s) and hmac(secret, s), lines 470-476: SHA-256 is left uninterpreted,
\* a term over its arguments
hash(s) == "sha256(" \o s \o ")"
hmac(secret, s) == "hmac(" \o secret \o "," \o s \o ")"

\* getDateTimeNow, lines 478-481: the clock reading t as YYYYMMDD, HHMMSS
getDateTimeNow(t) ==
    [date |-> "2026010" \o ToString(1 + (t \div 2)),
     time |-> IF t % 2 = 0 THEN "000000" ELSE "120000"]

\* the X-Date header of a reading: YYYYMMDD'T'HHMMSS'Z'
XDate(dt) == dt.date \o "T" \o dt.time \o "Z"

\* lines 322-323: the defaults of the destructuring, taken on undefined
OrDefault(x, d) == IF x = None THEN d ELSE x[1]

\* getSignHeaders(headers, []), lines 425-468, on the headers X-Date and Host
getSignHeaders(headers) ==
    [signedHeaders |-> "host;x-date",
     canonicalHeaders |-> "host:" \o headers.Host \o "\nx-date:" \o XDate(headers.XDate)]

\* queryParamsToString, lines 483-507, on the query Action, Version
queryParamsToString(query) == "Action=" \o query.Action \o "&Version=" \o query.Version

\* sign that salts the signature with the number of headers built so far
signSalted(params) ==
    "HMAC-SHA256 Credential=" \o params.accessKeyId
        \o ", Signature=" \o hmac(params.secretAccessKey, ToString(Len(sg_signed)))

\* sign, lines 359-423
sign(params) ==
    LET datetime == XDate(params.headers.XDate)
        date == params.headers.XDate.date
        sh == getSignHeaders(params.headers)
        canonicalRequest ==
            params.method \o "\n" \o params.pathName \o "\n"
                \o queryParamsToString(params.query) \o "\n"
                \o sh.canonicalHeaders \o "\n" \o "\n"
                \o sh.signedHeaders \o "\n" \o params.bodySha
        credentialScope ==
            date \o "/" \o params.region \o "/" \o params.serviceName \o "/request"
        stringToSign ==
            "HMAC-SHA256\n" \o datetime \o "\n" \o credentialScope \o "\n"
                \o hash(canonicalRequest)
        kDate == hmac(params.secretAccessKey, date)
        kRegion == hmac(kDate, params.region)
        kService == hmac(kRegion, params.serviceName)
        kSigning == hmac(kService, "request")
        signature == hmac(kSigning, stringToSign)
    IN "HMAC-SHA256 Credential=" \o params.accessKeyId \o "/" \o credentialScope
          \o ", SignedHeaders=" \o sh.signedHeaders \o ", Signature=" \o signature

\* the parameters buildHeaders hands to sign, lines 327-348, at clock reading t
SignParams(config, body, action, t) ==
    [headers |-> [XDate |-> getDateTimeNow(t), Host |-> config.host],
     query |-> [Action |-> action, Version |-> "2022-08-31"],
     method |-> "POST",
     pathName |-> "/",
     accessKeyId |-> config.accessKey,
     secretAccessKey |-> config.secretKey,
     region |-> OrDefault(config.region, "cn-north-1"),
     serviceName |-> OrDefault(config.service, "cv"),
     bodySha |-> hash(body)]

\* buildHeaders(config, body, fullUrl), lines 314-357
buildHeaders(config, body, action, t) ==
    LET params == SignParams(config, body, action, t)
    IN [ContentType |-> "application/json",
        XDate |-> XDate(params.headers.XDate),
        Host |-> params.headers.Host,
        Authorization |-> sign(params)]

\* the configurations, bodies and Actions headers are built for
SignConfigs ==
    { [accessKey |-> "AK1", secretKey |-> sk, region |-> r, service |-> None,
       host |-> "visual.volcengineapi.com"] :
        sk \in {"SK1", "SK2"}, r \in {None, Some("cn-north-1"), Some("cn-south-1")} }
SignBodies == {"{\"req_key\":\"a\"}", "{\"req_key\":\"b\"}"}
SignActions == {"CVProcess", "CVSync2AsyncSubmitTask"}

\* no headers built yet
SgUnused ==
    /\ sg_clock = 0
    /\ sg_signed = << >>

\* the clock advances between two calls
SgTick ==
    /\ sg_clock < MaxTicks
    /\ sg_clock' = sg_clock + 1
    /\ UNCHANGED sg_signed

\* one call of buildHeaders (lines 176, 221, 291)
SgBuildHeaders ==
    /\ Len(sg_signed) < MaxSigned
    /\ \E config \in SignConfigs : \E body \in SignBodies : \E action \in SignActions :
         sg_signed' = Append(sg_signed,
                             [params |-> SignParams(config, body, action, sg_clock),
                              config |-> config,
                              headers |-> buildHeaders(config, body, action, sg_clock)])
    /\ UNCHANGED sg_clock

----------------------------------------------------------------------------
(* OpenAIAdapter: buildGenerationRequest *)

\* the options of a generation call (types.ts lines 79-91)
OaOptions ==
    [model : {None, Some("dall-e-2"), Some("dall-e-3"), Some("gpt-image-1")},
     n : {None, Some(2)},
     size : {None, Some("1024x1024")},
     response_format : {None, Some("url")},
     quality : {None, Some("high")},
     style : {None, Some("vivid")},
     background : {None, Some("transparent")},
     moderation : {None, Some("low")},
     output_compression : {None, Some(0), Some(50)},
     output_format : {None, Some("png")},
     user : {None, Some("u1")}]

OaDefaultModels == {None, Some("dall-e-2"), Some("gpt-image-1")}

\* if (cond) requestData.field = value
SetIf(cond, value) == IF cond THEN value ELSE None

\* buildGenerationRequest that sends quality and style for every model
buildGenerationRequestUngated(options, defaultModel) ==
    LET model == JsOrStr(options.model, JsOrStr(defaultModel, Some("dall-e-3")))[1]
    IN [model |-> Some(model),
        n |-> IF model = "dall-e-3" THEN Some(1) ELSE JsOr(options.n, Some(1)),
        size |-> SetIf(TruthyStr(options.size), options.size),
        response_format |-> SetIf(TruthyStr(options.response_format),
                                  options.response_format),
        quality |-> SetIf(TruthyStr(options.quality), options.quality),
        style |-> SetIf(TruthyStr(options.style), options.style),
        background |-> SetIf(model = "gpt-image-1" /\ TruthyStr(options.background),
                             options.background),
        moderation |-> SetIf(model = "gpt-image-1" /\ TruthyStr(options.moderation),
                             options.moderation),
        output_compression |->
            SetIf(model = "gpt-image-1" /\ Truthy(options.output_compression),
                  options.output_compression),
        output_format |-> SetIf(model = "gpt-image-1" /\ TruthyStr(options.output_format),
                                options.output_format),
        user |-> SetIf(TruthyStr(options.user), options.user)]

\* buildGenerationRequest, part_004 lines 171-205: the body, a field absent
\* from it being None
buildGenerationRequest(options, defaultModel) ==
    LET model == JsOrStr(options.model, JsOrStr(defaultModel, Some("dall-e-3")))[1]
    IN [model |-> Some(model),
        n |-> IF model = "dall-e-3" THEN Some(1) ELSE JsOr(options.n, Some(1)),
        size |-> SetIf(TruthyStr(options.size), options.size),
        response_format |-> SetIf(TruthyStr(options.response_format),
                                  options.response_format),
        quality |-> SetIf(model \in {"dall-e-3", "gpt-image-1"} /\ TruthyStr(options.quality),
                          options.quality),
        style |-> SetIf(model = "dall-e-3" /\ TruthyStr(options.style), options.style),
        background |-> SetIf(model = "gpt-image-1" /\ TruthyStr(options.background),
                             options.background),
        moderation |-> SetIf(model = "gpt-image-1" /\ TruthyStr(options.moderation),
                             options.moderation),
        output_compression |->
            SetIf(model = "gpt-image-1" /\ Truthy(options.output_compression),
                  options.output_compression),
        output_format |-> SetIf(model = "gpt-image-1" /\ TruthyStr(options.output_format),
                                options.output_format),
        user |-> SetIf(TruthyStr(options.user), options.user)]

\* before the call, with its arguments
OaIdle(options, defaultModel) ==
    /\ oa_options = options
    /\ oa_defaultModel = defaultModel
    /\ oa_request = None

OaUnused ==
    OaIdle([model |-> None, n |-> None, size |-> None, response_format |-> None,
            quality |-> None, style |-> None, background |-> None, moderation |-> None,
            output_compression |-> None, output_format |-> None, user |-> None], None)

\* generateImage, part_004 line 69: the body is built
OaBuildGenerationRequest ==
    /\ oa_request = None
    /\ oa_request' = Some(buildGenerationRequest(oa_options, oa_defaultModel))
    /\ UNCHANGED <<oa_options, oa_defaultModel>>

----------------------------------------------------------------------------
(* OpenAIAdapter: buildEditRequest *)

OeModels == {None, Some(""), Some("dall-e-2"), Some("gpt-image-1")}
OeDefaultModels == {None, Some("dall-e-2"), Some("dall-e-3")}
OeDefaultEditModels == {None, Some("dall-e-2"), Some("gpt-image-1")}
OeImages == {"buffer", "base64", "url", "array", "other"}

\* buildEditRequest, part_004 line 210:
\* options.model || config.defaultModel || 'dall-e-2'
EditRequestModel(model, defaultModel, defaultEditModel) ==
    JsOrStr(model, JsOrStr(defaultModel, Some("dall-e-2")))[1]

\* before the call, with its arguments
OeIdle(model, image, defaultModel, defaultEditModel) ==
    /\ oe_model = model
    /\ oe_image = image
    /\ oe_defaultModel = defaultModel
    /\ oe_defaultEditModel = defaultEditModel
    /\ oe_out = None

OeUnused == OeIdle(None, "buffer", None, None)

\* editImage, part_004 line 102: buildEditRequest, lines 207-226: the model
\* and the image parts of the form, or the error thrown for an image that
\* is a URL or none of Buffer, string and array
OaBuildEditRequest ==
    /\ oe_out = None
    /\ oe_out' =
          IF oe_image \in {"url", "other"}
          THEN Some([ok |-> FALSE, model |-> "", image |-> "",
                     error |-> NewError("image editing takes no URL, upload a file")])
          ELSE Some([ok |-> TRUE,
                     model |-> EditRequestModel(oe_model, oe_defaultModel,
                                                oe_defaultEditModel),
                     image |-> IF oe_image = "array" THEN "image_0.png" ELSE "image.png",
                     error |-> NoError])
    /\ UNCHANGED <<oe_model, oe_image, oe_defaultModel, oe_defaultEditModel>>

----------------------------------------------------------------------------
(* DrawLunaService.createVariation reaching the Doubao adapter *)

\* part_002 lines 306-310 on a Doubao configuration: adapter.createVariation
\* runs (doubao.ts lines 161-169) and what it throws rejects operation(config, i)
DoubaoVariationThrows ==
    /\ svc_pc = "retrying"
    /\ ad_pc = "called"
    /\ IsDoubaoVariation
    /\ DbCreateVariation
    /\ adapterOutcomes' = Append(adapterOutcomes,
                                 [ok |-> FALSE, value |-> "", error |-> db_out'[1].error])
    /\ RwcReject(db_out'[1].error)
    /\ ad_pc' = "idle"
    /\ UNCHANGED <<adapters, loaded, svc_kind, svc_model, svc_promptTooLong, svc_pc,
                   svc_out, adapterCalls>>
    /\ UNCHANGED wrdVars

(* retryWithConfigs over an operation that calls the Doubao adapter *)

\* a content review code and a rate limit code of errorMapping: the first is
\* listed with retryable false, the second with retryable true
TableCodes == {50411, 50429}

\* operation(config, i) rejects with the error of a refused Doubao response
OperationThrowsProviderError == \E code \in TableCodes : RwcReject(DoubaoCodeError(code))

(* DrawLunaService.generateImage reaching the Doubao adapter *)

\* the answers of CVProcess a request is checked with: the images, a content
\* review rejection and a rate limit, each with HTTP status 200
ServiceProcessResponses ==
    { Response(200, 10000, "", "", v) : v \in Values }
    \cup { Response(200, code, "", "", "") : code \in TableCodes }

\* part_002 lines 218-222 on a Doubao configuration: adapter.generateImage
\* is entered with the options of the call
DoubaoGenerateEntered ==
    /\ svc_pc = "retrying"
    /\ ad_pc = "called"
    /\ IsDoubaoGenerate
    /\ DbEnter("generate", adapterCalls[Len(adapterCalls)].model)
    /\ ad_pc' = "entered"
    /\ UNCHANGED <<adapters, loaded, svc_kind, svc_model, svc_promptTooLong, svc_pc,
                   svc_out, adapterCalls, adapterOutcomes>>
    /\ UNCHANGED <<rwcVars, wrdVars>>

\* doubao.ts lines 92-125 and 171-201 run inside the request
DoubaoGenerateImage ==
    /\ ad_pc = "entered"
    /\ DbGenerateImage
    /\ UNCHANGED <<rwcVars, wrdVars, svcVars>>

DoubaoProcessResponse ==
    /\ ad_pc = "entered"
    /\ \E r \in ServiceProcessResponses : DbProcessResponds(r)
    /\ UNCHANGED <<rwcVars, wrdVars, svcVars>>

DoubaoProcessRejects ==
    /\ ad_pc = "entered"
    /\ DbHttpRejects
    /\ UNCHANGED <<rwcVars, wrdVars, svcVars>>

\* part_002 lines 218-224: what adapter.generateImage returned goes through
\* createImageElements to withRetryDelay, what it threw rejects the wrapped
\* operation
DoubaoGenerateEnds ==
    /\ svc_pc = "retrying"
    /\ ad_pc = "entered"
    /\ db_pc \in {"returned", "thrown"}
    /\ adapterOutcomes' = Append(adapterOutcomes, db_out[1])
    /\ IF db_out[1].ok
       THEN WrdResolve(db_out[1].value)
       ELSE WrdReject(db_out[1].error)
    /\ ad_pc' = "idle"
    /\ UNCHANGED <<adapters, loaded, svc_kind, svc_model, svc_promptTooLong, svc_pc,
                   svc_out, adapterCalls>>
    /\ UNCHANGED <<rwcVars, dbVars>>

----------------------------------------------------------------------------
(* Specification of retryWithConfigs alone, over an abstract operation *)

InitRetry ==
    /\ \E cs \in ConfigLists : RwcIdle(cs)
    /\ SrIdle(NoError)
    /\ WrdIdle(0, DefaultBaseDelay)
    /\ SvcUnused
    /\ CacheInit
    /\ GcUnused
    /\ DbUnused
    /\ SgUnused
    /\ OaUnused
    /\ OeUnused

NextRetry ==
    \/ RwcEnter /\ UNCHANGED <<srVars, wrdVars, svcVars, cacheVars, gcVars, dbVars, sgVars, oaVars, oeVars>>
    \/ RwcInvoke /\ UNCHANGED <<srVars, wrdVars, svcVars, cacheVars, gcVars, dbVars, sgVars, oaVars, oeVars>>
    \/ OperationReturns /\ UNCHANGED <<srVars, wrdVars, svcVars, cacheVars, gcVars, dbVars, sgVars, oaVars, oeVars>>
    \/ OperationThrows /\ UNCHANGED <<srVars, wrdVars, svcVars, cacheVars, gcVars, dbVars, sgVars, oaVars, oeVars>>
    \/ OperationThrowsProviderError /\ UNCHANGED <<srVars, wrdVars, svcVars, cacheVars, gcVars, dbVars, sgVars, oaVars, oeVars>>
    \/ RwcExit /\ UNCHANGED <<srVars, wrdVars, svcVars, cacheVars, gcVars, dbVars, sgVars, oaVars, oeVars>>

SpecRetry == InitRetry /\ [][NextRetry]_vars

----------------------------------------------------------------------------
(* Properties of retryWithConfigs (SpecRetry) *)

\* the operation completed with a failure at list position k
FailedAt(k) == \E j \in DOMAIN opOutcomes : opOutcomes[j].pos = k /\ ~opOutcomes[j].ok

\* the operation completed with value v at list position k
SucceededAt(k, v) ==
    \E j \in DOMAIN opOutcomes :
        opOutcomes[j].pos = k /\ opOutcomes[j].ok /\ opOutcomes[j].value = v

\* errors holds exactly n entries, with configIndex 0, 1, ..., n-1 in that order
ErrorsAreFirst(n) ==
    /\ Len(result.errors) = n
    /\ \A k \in 1..n : result.errors[k].configIndex = k - 1

\* C1: when the operation failed on list positions 0..n-1 and succeeded on
\* position n with value v, the returned RetryResult has success = true,
\* result = v, usedConfigIndex = n and exactly n errors with configIndex
\* 0..n-1 in order.
C1_FirstSuccessAfterFailures ==
    rwc_pc = "done" =>
        \A n \in 0..(Len(configs) - 1) : \A v \in Values :
            ((\A k \in 0..(n - 1) : FailedAt(k)) /\ SucceededAt(n, v)) =>
                /\ result.success = TRUE
                /\ result.result = Some(v)
                /\ result.usedConfigIndex = Some(n)
                /\ ErrorsAreFirst(n)

C1_Witness ==
    /\ rwc_pc = "done"
    /\ FailedAt(0) /\ FailedAt(1)
    /\ \E v \in Values : SucceededAt(2, v)

\* C2: when the operation failed at every position of a non-empty list, the
\* returned RetryResult has success = false, no result, no usedConfigIndex
\* and one error per configuration, errors[k].configIndex = k, in order.
C2_AllFail ==
    (rwc_pc = "done" /\ Len(configs) > 0
        /\ \A k \in 0..(Len(configs) - 1) : FailedAt(k)) =>
            /\ result.success = FALSE
            /\ result.result = None
            /\ result.usedConfigIndex = None
            /\ ErrorsAreFirst(Len(configs))

C2_Witness ==
    /\ rwc_pc = "done"
    /\ Len(configs) >= 2
    /\ \A k \in 0..(Len(configs) - 1) : FailedAt(k)

\* C3: on an empty list the operation is never invoked and the result is
\* success = false with exactly one error, whose configIndex is -1.
C3_EmptyList ==
    Len(configs) = 0 =>
        /\ opStarted = << >>
        /\ rwc_pc = "done" =>
              /\ result.success = FALSE
              /\ Len(result.errors) = 1
              /\ result.errors[1].configIndex = -1

C3_Witness == rwc_pc = "done" /\ Len(configs) = 0

\* C4: the loop is strictly sequential and stops at the first success: at
\* most one operation is in flight, positions are started in list order and
\* each at most once, position i+1 is started only after position i
\* completed with a failure, and nothing is started after a success.
C4_Sequential ==
    /\ Cardinality(inflight) <= 1
    /\ \A j \in DOMAIN opStarted : opStarted[j] = j - 1
    /\ Len(opStarted) <= Len(opOutcomes) + 1
    /\ \A j \in DOMAIN opOutcomes : opOutcomes[j].pos = j - 1
    /\ \A j \in DOMAIN opOutcomes : opOutcomes[j].ok => j = Len(opStarted)
    /\ inflight # {} => Len(opStarted) = Len(opOutcomes) + 1

C4_Witness ==
    /\ Len(opStarted) >= 3
    /\ inflight = {2}

\* C20: whatever the per-config operation throws (a permanent provider
\* error, the last error of exhausted retries, the poll timeout, an
\* unsupported operation, a value that is no Error), retryWithConfigs records
\* its message with the loop position and goes on to the next configuration:
\* it returns a failure only after the last configuration has been tried.
C20_EveryFailureFailsOver ==
    /\ \A j \in DOMAIN opOutcomes :
          ~opOutcomes[j].ok =>
              /\ j <= Len(result.errors)
              /\ result.errors[j] =
                    [configIndex |-> opOutcomes[j].pos,
                     error |-> IF opOutcomes[j].error.isError
                               THEN opOutcomes[j].error.message
                               ELSE opOutcomes[j].error.str]
              /\ (rwc_pc = "done" /\ j = Len(opOutcomes)) =>
                    opOutcomes[j].pos = Len(configs) - 1
    /\ (rwc_pc = "done" /\ Len(configs) > 0 /\ ~result.success) =>
          /\ Len(opStarted) = Len(configs)
          /\ Len(opOutcomes) = Len(configs)

C20_Witness ==
    /\ rwc_pc = "done"
    /\ Len(configs) = 3
    /\ Len(opOutcomes) = 3
    /\ opOutcomes[1].error.respStatus = Some(401)
    /\ opOutcomes[2].error.message = "task processing timed out"
    /\ opOutcomes[3].error.message = "doubao does not support image variations"
    /\ ~result.success

----------------------------------------------------------------------------
(* Specification of shouldRetry alone: one call on each error *)

InitShouldRetry ==
    /\ RwcIdle(<< >>)
    /\ \E e \in SrErrors : SrIdle(e)
    /\ WrdIdle(0, DefaultBaseDelay)
    /\ SvcUnused
    /\ CacheInit
    /\ GcUnused
    /\ DbUnused
    /\ SgUnused
    /\ OaUnused
    /\ OeUnused

NextShouldRetry ==
    \/ SrApply /\ UNCHANGED <<rwcVars, wrdVars, svcVars, cacheVars, gcVars, dbVars, sgVars, oaVars, oeVars>>

SpecShouldRetry == InitShouldRetry /\ [][NextShouldRetry]_vars

\* C5: shouldRetry returns false exactly when the status the error carries
\* (error.response.status, else error.status) is one of 400, 401, 403, 404,
\* 422; it returns true for any other status and when no status is present.
C5_ShouldRetry ==
    sr_out # None =>
        LET carried == IF sr_error.respStatus # None THEN sr_error.respStatus
                       ELSE sr_error.status
        IN (sr_out[1] = FALSE) <=>
              (carried # None /\ carried[1] \in {400, 401, 403, 404, 422})

C5_Witness ==
    /\ sr_out = Some(FALSE)
    /\ sr_error.respStatus = None
    /\ sr_error.status = Some(422)

----------------------------------------------------------------------------
(* Specification of withRetryDelay alone, over an abstract operation *)

BaseDelays == {DefaultBaseDelay, 250}

InitBackoff ==
    /\ RwcIdle(<< >>)
    /\ SrIdle(NoError)
    /\ \E m \in (-1)..MaxRetriesBound : \E b \in BaseDelays : WrdIdle(m, b)
    /\ SvcUnused
    /\ CacheInit
    /\ GcUnused
    /\ DbUnused
    /\ SgUnused
    /\ OaUnused
    /\ OeUnused

NextBackoff ==
    \/ WrdEnter /\ UNCHANGED <<rwcVars, srVars, svcVars, cacheVars, gcVars, dbVars, sgVars, oaVars, oeVars>>
    \/ WrdLoopTest /\ UNCHANGED <<rwcVars, srVars, svcVars, cacheVars, gcVars, dbVars, sgVars, oaVars, oeVars>>
    \/ WrdOperationReturns /\ UNCHANGED <<rwcVars, srVars, svcVars, cacheVars, gcVars, dbVars, sgVars, oaVars, oeVars>>
    \/ WrdOperationThrows /\ UNCHANGED <<rwcVars, srVars, svcVars, cacheVars, gcVars, dbVars, sgVars, oaVars, oeVars>>
    \/ WrdDelayElapsed /\ UNCHANGED <<rwcVars, srVars, svcVars, cacheVars, gcVars, dbVars, sgVars, oaVars, oeVars>>

SpecBackoff == InitBackoff /\ [][NextBackoff]_vars

\* the thrown value carries none of the statuses 400, 401, 403, 404, 422
Retryable(e) ==
    LET carried == IF e.respStatus # None THEN e.respStatus ELSE e.status
    IN ~(carried # None /\ carried[1] \in {400, 401, 403, 404, 422})

\* every completed invocation threw a retryable error
AllRetryableFailures ==
    \A k \in DOMAIN wrdOutcomes : ~wrdOutcomes[k].ok /\ Retryable(wrdOutcomes[k].error)

\* C6: when every invocation throws a retryable error and maxRetries >= 0,
\* the operation is invoked exactly maxRetries + 1 times, the waits are
\* baseDelay * 2^i for i = 0..maxRetries-1 (1000, 2000, 4000 for 3 and
\* 1000), no wait follows the last failure, and the last error is re-raised.
C6_ExhaustedRetries ==
    (maxRetries >= 0 /\ AllRetryableFailures) =>
        /\ wrd_pc # "returned"
        /\ wrdInvoked <= maxRetries + 1
        /\ wrd_pc = "thrown" =>
              /\ wrdInvoked = maxRetries + 1
              /\ Len(wrdOutcomes) = maxRetries + 1
              /\ Len(delays) = maxRetries
              /\ wrdOut = Some(wrdOutcomes[maxRetries + 1].error)
        /\ \A k \in DOMAIN delays :
              delays[k] = IF k = 1 THEN baseDelay ELSE 2 * delays[k - 1]
        /\ (wrd_pc = "thrown" /\ maxRetries = 3 /\ baseDelay = 1000) =>
              delays = <<1000, 2000, 4000>>

C6_Witness ==
    /\ wrd_pc = "thrown"
    /\ maxRetries = 3 /\ baseDelay = 1000
    /\ AllRetryableFailures
    /\ wrdInvoked = 4

\* C7: as soon as an invocation throws an error whose status is one of
\* 400, 401, 403, 404, 422, that same error is re-raised: it is the last
\* invocation, and no wait is started after it.
C7_NonRetryableStops ==
    \A k \in DOMAIN wrdOutcomes :
        (~wrdOutcomes[k].ok /\ ~Retryable(wrdOutcomes[k].error)) =>
            /\ k = Len(wrdOutcomes)
            /\ wrdInvoked = k
            /\ Len(delays) = k - 1
            /\ wrd_pc = "thrown"
            /\ wrdOut = Some(wrdOutcomes[k].error)

C7_Witness ==
    /\ wrd_pc = "thrown"
    /\ Len(wrdOutcomes) = 2
    /\ ~Retryable(wrdOutcomes[2].error)
    /\ maxRetries = 3

----------------------------------------------------------------------------
(* Specification of one DrawLunaService request *)

AdapterSets == SUBSET {"openai", "doubao"}

InitService ==
    /\ RwcIdle(<< >>)
    /\ SrIdle(NoError)
    /\ WrdIdle(0, DefaultBaseDelay)
    /\ \E as \in AdapterSets : \E ls \in LoadedLists : \E kind \in Kinds :
         \E model \in RequestModels : \E tooLong \in BOOLEAN :
            SvcIdle(as, ls, kind, model, tooLong)
    /\ CacheInit
    /\ GcUnused
    /\ DbIdle(svc_kind, None, None, None, "ok")
    /\ SgUnused
    /\ OaUnused
    /\ OeUnused

NextService ==
    \/ SvcRequest /\ UNCHANGED <<srVars, cacheVars, gcVars, dbVars, sgVars, oaVars, oeVars>>
    \/ SvcRwcEnter /\ UNCHANGED <<srVars, cacheVars, gcVars, dbVars, sgVars, oaVars, oeVars>>
    \/ SvcRwcInvoke /\ UNCHANGED <<srVars, cacheVars, gcVars, dbVars, sgVars, oaVars, oeVars>>
    \/ SvcWrdEnter /\ UNCHANGED <<srVars, cacheVars, gcVars, dbVars, sgVars, oaVars, oeVars>>
    \/ SvcWrdLoopTest /\ UNCHANGED <<srVars, cacheVars, gcVars, dbVars, sgVars, oaVars, oeVars>>
    \/ SvcWrdDelayElapsed /\ UNCHANGED <<srVars, cacheVars, gcVars, dbVars, sgVars, oaVars, oeVars>>
    \/ AdapterCall /\ UNCHANGED <<srVars, cacheVars, gcVars, dbVars, sgVars, oaVars, oeVars>>
    \/ AdapterReturns /\ UNCHANGED <<srVars, cacheVars, gcVars, dbVars, sgVars, oaVars, oeVars>>
    \/ AdapterThrows /\ UNCHANGED <<srVars, cacheVars, gcVars, dbVars, sgVars, oaVars, oeVars>>
    \/ DoubaoVariationThrows /\ UNCHANGED <<srVars, cacheVars, gcVars, sgVars, oaVars, oeVars>>
    \/ DoubaoGenerateEntered /\ UNCHANGED <<srVars, cacheVars, gcVars, sgVars, oaVars, oeVars>>
    \/ DoubaoGenerateImage /\ UNCHANGED <<srVars, cacheVars, gcVars, sgVars, oaVars, oeVars>>
    \/ DoubaoProcessResponse /\ UNCHANGED <<srVars, cacheVars, gcVars, sgVars, oaVars, oeVars>>
    \/ DoubaoProcessRejects /\ UNCHANGED <<srVars, cacheVars, gcVars, sgVars, oaVars, oeVars>>
    \/ DoubaoGenerateEnds /\ UNCHANGED <<srVars, cacheVars, gcVars, sgVars, oaVars, oeVars>>
    \/ SvcWrdReturned /\ UNCHANGED <<srVars, cacheVars, gcVars, dbVars, sgVars, oaVars, oeVars>>
    \/ SvcWrdThrown /\ UNCHANGED <<srVars, cacheVars, gcVars, dbVars, sgVars, oaVars, oeVars>>
    \/ SvcRwcExit /\ UNCHANGED <<srVars, cacheVars, gcVars, dbVars, sgVars, oaVars, oeVars>>
    \/ SvcFinish /\ UNCHANGED <<srVars, cacheVars, gcVars, dbVars, sgVars, oaVars, oeVars>>

SpecService == InitService /\ [][NextService]_vars

\* the number of adapter calls made for list position pos
CallsAt(pos) == Cardinality({ j \in DOMAIN adapterCalls : adapterCalls[j].pos = pos })

\* every adapter call made for list position pos ended in a retryable error
KeptFailingRetryably(pos) ==
    \A j \in DOMAIN adapterCalls :
        adapterCalls[j].pos = pos =>
            /\ j \in DOMAIN adapterOutcomes
            /\ ~adapterOutcomes[j].ok
            /\ Retryable(adapterOutcomes[j].error)

\* the tries a configuration is due: retryCount + 1, retryCount being 2 when unset
TriesDue(c) == IF c.retryCount = None THEN 3 ELSE c.retryCount[1] + 1

\* for the operation kinds in ks: a configuration the orchestrator has moved
\* past, whose adapter calls all failed retryably, received retryCount + 1 calls
BackoffNestedFor(ks) ==
    svc_kind \in ks =>
        \A pos \in 0..(Len(configs) - 1) :
            (FailedAt(pos) /\ KeptFailingRetryably(pos)) =>
                CallsAt(pos) = TriesDue(configs[pos + 1])

\* C8: for each operation kind (generateImage, editImage, createVariation), a
\* configuration whose adapter call keeps failing with retryable errors
\* receives retryCount + 1 adapter calls before the orchestrator moves on.
C8_BackoffNestedInEveryOperation == BackoffNestedFor({"generate", "edit", "variation"})

\* the nesting as the code has it: generateImage alone wraps the adapter
\* call in withRetryDelay
GenerateBackoffNested == BackoffNestedFor({"generate"})

----------------------------------------------------------------------------
(* Specification of the model cache of the adapters *)

InitCache ==
    /\ RwcIdle(<< >>)
    /\ SrIdle(NoError)
    /\ WrdIdle(0, DefaultBaseDelay)
    /\ SvcUnused
    /\ CacheInit
    /\ GcUnused
    /\ DbUnused
    /\ SgUnused
    /\ OaUnused
    /\ OeUnused

NextCache ==
    \/ Tick /\ UNCHANGED <<rwcVars, srVars, wrdVars, svcVars, gcVars, dbVars, sgVars, oaVars, oeVars>>
    \/ GetModelsCalled /\ UNCHANGED <<rwcVars, srVars, wrdVars, svcVars, gcVars, dbVars, sgVars, oaVars, oeVars>>
    \/ FetchSucceeds /\ UNCHANGED <<rwcVars, srVars, wrdVars, svcVars, gcVars, dbVars, sgVars, oaVars, oeVars>>
    \/ FetchFails /\ UNCHANGED <<rwcVars, srVars, wrdVars, svcVars, gcVars, dbVars, sgVars, oaVars, oeVars>>
    \/ CacheCleared /\ UNCHANGED <<rwcVars, srVars, wrdVars, svcVars, gcVars, dbVars, sgVars, oaVars, oeVars>>

SpecCache == InitCache /\ [][NextCache]_vars

\* C9: a getModels call made while an entry for its config exists and
\* now - timestamp < 5 minutes returns the entry's list without calling
\* _getModels; a call made when now - timestamp >= 5 minutes calls _getModels.
C9_CacheFreshness ==
    /\ \A c \in Callers :
          (gm[c].pc = "fetching" /\ gm[c].cached # None) =>
              gm[c].at - gm[c].cached[1].timestamp >= 300000
    /\ (lastCall.done /\ lastCall.cached # None) =>
          LET age == lastCall.at - lastCall.cached[1].timestamp
          IN /\ age < 300000 =>
                  /\ ~lastCall.fetched
                  /\ lastCall.ret = lastCall.cached[1].models
             /\ age >= 300000 => lastCall.fetched

C9_Witness ==
    /\ lastCall.done
    /\ lastCall.cached # None
    /\ lastCall.at - lastCall.cached[1].timestamp = 299999
    /\ ~lastCall.fetched

\* C10: when _getModels fails, the cache (every entry's models and
\* timestamp) is left as it is; the call returns the list of the entry it
\* found for its config when it looked the cache up, if there was one, and
\* the adapter's default models otherwise.
C10_RefreshFailure ==
    [][ \A c \in Callers :
          (gm[c].pc = "fetching" /\ gm'[c].pc = "idle" /\ lastCall'.failed) =>
              /\ modelCache' = modelCache
              /\ lastCall'.ret =
                    IF gm[c].cached # None THEN gm[c].cached[1].models
                    ELSE getDefaultModels(gm[c].config.type) ]_vars

\* the same with the entry present when the fetch fails in place of the
\* entry found at the lookup: the two differ when another call or
\* clearModelCache changed the entry during the fetch
RefreshFailureOnCurrentEntry ==
    [][ \A c \in Callers :
          (gm[c].pc = "fetching" /\ gm'[c].pc = "idle" /\ lastCall'.failed) =>
              lastCall'.ret =
                    IF modelCache[cacheKey(gm[c].config)] # None
                    THEN modelCache[cacheKey(gm[c].config)][1].models
                    ELSE getDefaultModels(gm[c].config.type) ]_vars

C10_Witness ==
    /\ lastCall.done
    /\ lastCall.failed
    /\ lastCall.cached # None
    /\ modelCache[cacheKey(lastCall.config)] = lastCall.cached

----------------------------------------------------------------------------
(* Specification of getConfigs alone: one call on each selection of        *)
(* registered adapters, model filter and fallbackToDefault option           *)

Fallbacks == {None, Some(TRUE), Some(FALSE)}

\* the lists the service may have loaded: openai entries, the doubao entry last
GcLoadedLists ==
    { [k \in 1..n |-> LoadedConfig(k - 1, n, None)] : n \in 0..MaxConfigs }

InitGetConfigs ==
    /\ RwcIdle(<< >>)
    /\ SrIdle(NoError)
    /\ WrdIdle(0, DefaultBaseDelay)
    /\ \E as \in AdapterSets : \E ls \in GcLoadedLists : \E model \in FilterModels :
         SvcIdle(as, ls, "generate", model, FALSE)
    /\ CacheInit
    /\ \E f \in Fallbacks : GcIdle(f)
    /\ DbUnused
    /\ SgUnused
    /\ OaUnused
    /\ OeUnused

NextGetConfigs ==
    \/ GcCall /\ UNCHANGED <<rwcVars, srVars, wrdVars, svcVars, cacheVars, dbVars, sgVars, oaVars, oeVars>>

SpecGetConfigs == InitGetConfigs /\ [][NextGetConfigs]_vars

\* a model filter is given and no eligible configuration answered true
NoneSupports ==
    /\ svc_model \notin {None, Some("")}
    /\ \A k \in DOMAIN gc_answers : gc_answers[k] # "true"

\* the eligible set: the loaded configurations, in order, whose provider tag
\* has a registered adapter
Eligible == SelectSeq(loaded, LAMBDA c : c.type \in adapters)

\* C12: when a model filter is given and no eligible configuration supports
\* the model, getConfigs returns all eligible configurations if
\* fallbackToDefault is true or left out, and the empty list if it is false.
C12_Fallback ==
    (gc_out # None /\ NoneSupports) =>
        gc_out[1] = IF gc_fallback = Some(FALSE) THEN << >> ELSE Eligible

C12_Witness ==
    /\ gc_out = Some(<< >>)
    /\ NoneSupports
    /\ gc_fallback = Some(FALSE)
    /\ Len(Eligible) >= 2

\* the positions of the eligible configurations that answered true
AnsweredTrue == { k \in DOMAIN gc_answers : gc_answers[k] = "true" }

\* the j-th smallest element of the set S of numbers
Nth(S, j) == CHOOSE k \in S : Cardinality({ m \in S : m <= k }) = j

\* C13: the eligible set is the loaded configurations with a registered
\* adapter, in configuration order; without a model filter getConfigs
\* returns it unchanged; with a filter that at least one eligible
\* configuration supports it returns exactly the configurations that
\* answered true, in the same relative order; the list returned is always an
\* order-preserving sub-list of the eligible set.
C13_Selection ==
    gc_out # None =>
        /\ gc_out[1] \in SubSeqsOf(Eligible)
        /\ svc_model \in {None, Some("")} => gc_out[1] = Eligible
        /\ (svc_model \notin {None, Some("")} /\ AnsweredTrue # {}) =>
              /\ Len(gc_out[1]) = Cardinality(AnsweredTrue)
              /\ \A j \in 1..Len(gc_out[1]) : gc_out[1][j] = Eligible[Nth(AnsweredTrue, j)]

C13_Witness ==
    /\ gc_out # None
    /\ Len(Eligible) = 3
    /\ gc_answers = <<"true", "false", "true">>
    /\ Len(gc_out[1]) = 2

----------------------------------------------------------------------------
(* Specification of one DoubaoAdapter operation call *)

\* options.model, and the default models of a configuration
DbModels == {None, Some(""), Some(SyncModel), Some(EditModel), Some("dall-e-3")}
DbDefaultModels == {None, Some(SyncModel), Some(EditModel)}
DbDefaultEditModels == {None, Some(EditModel)}
DbImages == {"ok", "not an array", "other format"}

InitDoubao ==
    /\ RwcIdle(<< >>)
    /\ SrIdle(NoError)
    /\ WrdIdle(0, DefaultBaseDelay)
    /\ SvcUnused
    /\ CacheInit
    /\ GcUnused
    /\ \/ \E m \in DbModels : \E dm \in DbDefaultModels : DbIdle("generate", m, dm, None, "ok")
       \/ \E m \in {None, Some(SyncModel)} : \E dem \in DbDefaultEditModels :
             \E img \in DbImages : DbIdle("edit", m, None, dem, img)
       \/ \E m \in DbModels : DbIdle("variation", m, None, None, "ok")
    /\ SgUnused
    /\ OaUnused
    /\ OeUnused

NextDoubao ==
    \/ DbGenerateImage /\ UNCHANGED <<rwcVars, srVars, wrdVars, svcVars, cacheVars, gcVars, sgVars, oaVars, oeVars>>
    \/ DbProcessResponse /\ UNCHANGED <<rwcVars, srVars, wrdVars, svcVars, cacheVars, gcVars, sgVars, oaVars, oeVars>>
    \/ DbEditImage /\ UNCHANGED <<rwcVars, srVars, wrdVars, svcVars, cacheVars, gcVars, sgVars, oaVars, oeVars>>
    \/ DbSubmitResponse /\ UNCHANGED <<rwcVars, srVars, wrdVars, svcVars, cacheVars, gcVars, sgVars, oaVars, oeVars>>
    \/ DbPollLoopTest /\ UNCHANGED <<rwcVars, srVars, wrdVars, svcVars, cacheVars, gcVars, sgVars, oaVars, oeVars>>
    \/ DbResultResponse /\ UNCHANGED <<rwcVars, srVars, wrdVars, svcVars, cacheVars, gcVars, sgVars, oaVars, oeVars>>
    \/ DbWaitElapsed /\ UNCHANGED <<rwcVars, srVars, wrdVars, svcVars, cacheVars, gcVars, sgVars, oaVars, oeVars>>
    \/ DbHttpRejects /\ UNCHANGED <<rwcVars, srVars, wrdVars, svcVars, cacheVars, gcVars, sgVars, oaVars, oeVars>>
    \/ DbCreateVariation /\ UNCHANGED <<rwcVars, srVars, wrdVars, svcVars, cacheVars, gcVars, sgVars, oaVars, oeVars>>

SpecDoubao == InitDoubao /\ [][NextDoubao]_vars

\* the number of result queries answered in_queue or generating
Pending == db_polled.in_queue + db_polled.generating

\* the last result query was answered, accepted, with the task status ts
LastResultIs(ts) ==
    /\ db_resp.result # None
    /\ Accepted(db_resp.result[1])
    /\ db_resp.result[1].taskStatus = ts

\* the call ended by throwing an Error whose message is msg
DbThrew(msg) ==
    /\ db_pc = "thrown"
    /\ db_out # None
    /\ ~db_out[1].ok
    /\ db_out[1].error.isError
    /\ db_out[1].error.message = msg

\* C14: when the first k-1 result queries report in_queue or generating and
\* the k-th reports done (1 <= k <= 30), the edit returns the payload of the
\* k-th response after exactly k result queries, and no query follows.
C14_PollSuccess ==
    LastResultIs("done") =>
        /\ db_pc = "returned"
        /\ db_out = Some([ok |-> TRUE, value |-> db_resp.result[1].payload,
                          error |-> NoError])
        /\ db_http.result = Pending + 1
        /\ db_http.result \in 1..30
        /\ db_http.submit = 1

C14_Witness ==
    /\ LastResultIs("done")
    /\ db_pc = "returned"
    /\ db_polled = [in_queue |-> 1, generating |-> 1]
    /\ db_http.result = 3

\* the boundary of C14: done at the 30th query
PollSuccessAtLastAttempt ==
    /\ LastResultIs("done")
    /\ db_pc = "returned"
    /\ db_http.result = 30

\* C15: the result endpoint is queried at most 30 times per task; when 30
\* queries reported in_queue or generating the edit fails with the
\* processing-timeout error after exactly 30 queries, and that error is
\* raised in no other case.
C15_PollCeiling ==
    /\ db_http.result <= 30
    /\ Pending = 30 =>
          /\ db_http.result = 30
          /\ db_pc \in {"wait", "poll", "thrown"}
          /\ db_pc = "thrown" => DbThrew("task processing timed out")
    /\ DbThrew("task processing timed out") => (Pending = 30 /\ db_http.result = 30)

C15_Witness ==
    /\ DbThrew("task processing timed out")
    /\ db_polled.in_queue = 30
    /\ db_http.result = 30

\* C16: a result query reporting not_found or expired, at any poll position,
\* ends the call at once by throwing; no further query is made and the task
\* is not submitted again.
C16_PollTerminalFailure ==
    (LastResultIs("not_found") \/ LastResultIs("expired")) =>
        /\ db_pc = "thrown"
        /\ db_out # None /\ ~db_out[1].ok
        /\ db_http.result = Pending + 1
        /\ db_http.submit = 1

C16_Witness ==
    /\ LastResultIs("expired")
    /\ db_pc = "thrown"
    /\ Pending = 2

\* C17: when the submit call is answered with a code other than 10000 or a
\* status other than 200, the edit throws at once an error whose message is
\* built from formatDoubaoError(code, message), and no result query is made.
C17_SubmitRefused ==
    (db_resp.submit # None /\ (db_resp.submit[1].code # 10000
                                  \/ db_resp.submit[1].status # 200)) =>
        /\ DbThrew("doubao task submission failed: "
                      \o formatDoubaoError(db_resp.submit[1].code, db_resp.submit[1].message))
        /\ db_http.result = 0
        /\ db_http.submit = 1
        /\ db_resp.result = None

C17_Witness ==
    /\ db_resp.submit # None
    /\ db_resp.submit[1].status = 200
    /\ db_resp.submit[1].code = 50411
    /\ DbThrew("doubao task submission failed: "
                  \o "input image rejected by content review, use another image"
                  \o " (code: 50411)")

\* the model generateImage resolves: options.model, else the config's
\* default model, else the synchronous model
ResolvedGenerateModel ==
    IF db_model \notin {None, Some("")} THEN db_model[1]
    ELSE IF db_defaultModel \notin {None, Some("")} THEN db_defaultModel[1]
    ELSE "high_aes_general_v30l_zt2i"

\* C19: generateImage sends the CVProcess call only when the resolved model
\* is high_aes_general_v30l_zt2i; for seededit_v3.0 and any other model it
\* throws before any HTTP call; it never submits or polls a task.
C19_GenerateRouting ==
    db_kind = "generate" =>
        /\ db_http.submit = 0 /\ db_http.result = 0
        /\ db_http.process <= 1
        /\ db_http.process = 1 =>
              /\ ResolvedGenerateModel = "high_aes_general_v30l_zt2i"
              /\ db_reqKey = Some("high_aes_general_v30l_zt2i")
        /\ (ResolvedGenerateModel # "high_aes_general_v30l_zt2i" /\ db_pc # "idle") =>
              /\ db_pc = "thrown"
              /\ db_http = NoHttp
        /\ (ResolvedGenerateModel = "high_aes_general_v30l_zt2i" /\ db_pc # "idle") =>
              db_http.process = 1

C19_Witness ==
    /\ db_kind = "generate"
    /\ db_pc = "thrown"
    /\ db_model = None
    /\ db_defaultModel = Some("seededit_v3.0")
    /\ db_http = NoHttp

\* the other side of C19: the synchronous call is made and answered
GenerateRoutedToSync ==
    /\ db_kind = "generate"
    /\ db_pc = "returned"
    /\ db_model = Some("")
    /\ db_http.process = 1

\* the message of the error DoubaoAdapter.createVariation throws
VariationUnsupported == "doubao does not support image variations"

\* C18: createVariation of the Doubao adapter always throws, for every
\* config and options, without any HTTP call; a createVariation request
\* whose only eligible configuration is the Doubao one ends by throwing,
\* with exactly one recorded error.
C18_DoubaoVariation ==
    svc_kind = "variation" =>
        /\ db_http = NoHttp
        /\ \A j \in DOMAIN adapterOutcomes :
              adapterCalls[j].type = "doubao" =>
                  /\ ~adapterOutcomes[j].ok
                  /\ adapterOutcomes[j].error.message = VariationUnsupported
        /\ (Len(getAllConfigs) = 1 /\ getAllConfigs[1].type = "doubao") =>
              /\ svc_pc # "returned"
              /\ svc_pc = "thrown" =>
                    /\ Len(result.errors) = 1
                    /\ result.errors[1].error = VariationUnsupported
                    /\ Len(adapterCalls) = 1
                    /\ svc_out = [kind |-> "single", value |-> VariationUnsupported,
                                  errors |-> <<[configIndex |-> 0,
                                                error |-> VariationUnsupported]>>]

C18_Witness ==
    /\ svc_kind = "variation"
    /\ svc_pc = "thrown"
    /\ Len(getAllConfigs) = 1 /\ getAllConfigs[1].type = "doubao"
    /\ svc_model = Some("dall-e-3")
    /\ Len(result.errors) = 1

\* C11: getModels never passes a failure of _getModels on to its caller:
\* every completed call, whether _getModels returned, threw or was not
\* called, ended by returning a list of model names, never by throwing.
C11_BestEffortLookup ==
    lastCall.done =>
        /\ ~lastCall.threw
        /\ lastCall.ret \in Seq(ModelNames)

C11_Witness ==
    /\ lastCall.done
    /\ lastCall.failed
    /\ lastCall.cached = None
    /\ lastCall.ret = getDefaultModels("openai")

----------------------------------------------------------------------------
(* Permanent provider errors and the generateImage retries *)

\* the content review codes of errorMapping (doubao.ts lines 29-48)
ModerationCodes == {50411, 50511, 50412, 50512, 50413}

\* a permanent failure: an error carrying a bad-request, bad-auth or
\* not-found HTTP status, or the Doubao error of a content review code
Permanent(e) == ~Retryable(e) \/ \E code \in ModerationCodes : e = DoubaoCodeError(code)

\* C21: when a generateImage attempt on a configuration fails with a
\* permanent provider error (bad auth, bad request, or for Doubao a response
\* with a content moderation code), the adapter is called exactly once for
\* that configuration, and the orchestrator then records the failure and
\* moves to the next configuration: no adapter call for that configuration
\* follows the failed one.
C21_PermanentNotRetried ==
    svc_kind = "generate" =>
        \A j \in DOMAIN adapterOutcomes :
            (~adapterOutcomes[j].ok /\ Permanent(adapterOutcomes[j].error)) =>
                /\ \A k \in DOMAIN adapterCalls :
                      k > j => adapterCalls[k].pos # adapterCalls[j].pos
                /\ (rwc_i > adapterCalls[j].pos \/ rwc_pc = "done") =>
                      FailedAt(adapterCalls[j].pos)

\* the part of C21 the code keeps: an error carrying one of the statuses of
\* shouldRetry ends the attempts on its configuration
StatusErrorNotRetried ==
    svc_kind = "generate" =>
        \A j \in DOMAIN adapterOutcomes :
            (~adapterOutcomes[j].ok /\ ~Retryable(adapterOutcomes[j].error)) =>
                \A k \in DOMAIN adapterCalls :
                    k > j => adapterCalls[k].pos # adapterCalls[j].pos

\* a content review rejection answered by the Doubao provider was retried
ModerationRetried ==
    /\ svc_kind = "generate"
    /\ Len(adapterOutcomes) >= 2
    /\ adapterOutcomes[1].error = DoubaoCodeError(50411)
    /\ adapterCalls[2].pos = adapterCalls[1].pos

----------------------------------------------------------------------------
(* The error-code table of the Doubao adapter and fail-over *)

\* the code of errorMapping whose Doubao error e is, if any
CodeOf(e) == { code \in MappedCodes : e = DoubaoCodeError(code) }

TableCodeFailsOver ==
    \A j \in DOMAIN opOutcomes :
        \A code \in CodeOf(opOutcomes[j].error) :
            (rwc_pc = "done" /\ j < Len(configs)) => Len(opStarted) > j

\* a configuration was tried after a content review rejection
ModerationFailedOver ==
    /\ Len(opOutcomes) >= 2
    /\ opOutcomes[1].error = DoubaoCodeError(50411)
    /\ opOutcomes[2].pos = 1

----------------------------------------------------------------------------
(* What a request reports (SpecService) *)

\* the summary of two and of three recorded errors, written out
SummaryOfTwo(e1, e2) ==
    "all configurations failed:\nconfig " \o ToString(e1.configIndex) \o ": " \o e1.error
        \o "\nconfig " \o ToString(e2.configIndex) \o ": " \o e2.error

SummaryOfThree(e1, e2, e3) ==
    SummaryOfTwo(e1, e2) \o "\nconfig " \o ToString(e3.configIndex) \o ": " \o e3.error

\* the text the claim gives for the recorded errors
ExpectedText(r) ==
    IF r.success THEN ""
    ELSE IF Len(r.errors) = 1 THEN r.errors[1].error
    ELSE IF Len(r.errors) = 2 THEN SummaryOfTwo(r.errors[1], r.errors[2])
    ELSE SummaryOfThree(r.errors[1], r.errors[2], r.errors[3])

\* C23: formatRetryErrors returns the recorded message alone when exactly
\* one error was recorded, a summary with one line per recorded error, in
\* attempt order and labelled with the recorded index, when two or more were
\* recorded, and the empty string for a successful result; the request
\* throws (that text) exactly when the RetryResult is not successful and
\* otherwise returns the payload of the successful result.
C23_ErrorReporting ==
    rwc_pc = "done" =>
        /\ Len(result.errors) \in 1..3 \/ result.success =>
              formatRetryErrors(result).value = ExpectedText(result)
        /\ svc_pc = "thrown" =>
              /\ ~result.success
              /\ svc_out.value = ExpectedText(result)
        /\ svc_pc = "returned" =>
              /\ result.success
              /\ svc_out.kind = "elements"
              /\ svc_out.value = result.result[1]

\* a request over two configurations that both failed threw the summary
C23_Witness ==
    /\ svc_pc = "thrown"
    /\ rwc_pc = "done"
    /\ Len(result.errors) = 2
    /\ result.errors[1].error # result.errors[2].error
    /\ svc_out.kind = "summary"

----------------------------------------------------------------------------
(* The registry of model names and the entries of the cache (SpecCache) *)

\* caller c's call of _getModels returns in this step
RefreshSucceeds(c) ==
    /\ gm[c].pc = "fetching"
    /\ gm'[c].pc = "idle"
    /\ lastCall'.fetched /\ ~lastCall'.failed
    /\ lastCall'.raw # None

\* C24: after every successful refresh for a configuration of type t the
\* registry entry for t is the sorted union, without duplicates, of its
\* previous content and the fetched list; from the empty registry, the entry
\* for t holds every fetched model after the first successful refresh.
C24_RegistryMerge ==
    [][\A c \in Callers :
          RefreshSucceeds(c) =>
              LET t == gm[c].config.type
                  previous == IF registry[t] = None THEN << >> ELSE registry[t][1]
              IN registry'[t] = Some(MergeModels(previous, lastCall'.raw[1]))]_vars

\* what the code does: no refresh ever writes the registry
RegistryStaysEmpty == \A t \in Types : registry[t] = None

\* a refresh fetched model names and returned
RefreshFetchedNames ==
    /\ lastCall.done
    /\ lastCall.raw = Some(<<"gpt-image-1", "dall-e-2">>)

\* C25: a successful refresh replaces the cache entry of the config's key:
\* after it the entry holds exactly the list this refresh's _getModels call
\* returned for that config, stamped with the time of the refresh, whatever
\* the replaced entry and the entries of the other configurations held; the
\* list getModels returns, which supportsModel searches, is that list.
C25_EntryReplaced ==
    [][\A c \in Callers :
          RefreshSucceeds(c) =>
              /\ modelCache'[cacheKey(gm[c].config)] =
                    Some([models |-> lastCall'.raw[1], timestamp |-> now])
              /\ lastCall'.ret = lastCall'.raw[1]]_vars

\* a stale entry was replaced by a list that lacks names the entry held
C25_Witness ==
    /\ lastCall.done /\ lastCall.fetched /\ ~lastCall.failed
    /\ lastCall.cached # None
    /\ lastCall.raw = Some(<<"gpt-image-1", "dall-e-2">>)
    /\ "dall-e-3" \in Range(lastCall.cached[1].models)
    /\ modelCache[cacheKey(lastCall.config)] # None
    /\ "dall-e-3" \notin Range(modelCache[cacheKey(lastCall.config)][1].models)

\* the entries of two configurations of one type differ
EntriesAreKeyScoped ==
    /\ modelCache[<<"openai", 0>>] # None
    /\ modelCache[<<"openai", 1>>] # None
    /\ Range(modelCache[<<"openai", 0>>][1].models)
          # Range(modelCache[<<"openai", 1>>][1].models)

\* C26: when several callers call getModels for the same config while its
\* entry is missing or stale, at most one _getModels call for that cache key
\* is in flight at any time.
C26_OneFetchPerKey ==
    \A c1 \in Callers : \A c2 \in Callers :
        (c1 # c2 /\ gm[c1].pc = "fetching" /\ gm[c2].pc = "fetching") =>
            cacheKey(gm[c1].config) # cacheKey(gm[c2].config)

\* two calls of _getModels for one cache key are in flight
TwoFetchesForOneKey ==
    /\ gm[1].pc = "fetching" /\ gm[2].pc = "fetching"
    /\ gm[1].config = gm[2].config
    /\ gm[1].cached = None /\ gm[2].cached = None

----------------------------------------------------------------------------
(* Specification of DoubaoAdapter.buildHeaders, called at several times *)

InitSign ==
    /\ RwcIdle(<< >>)
    /\ SrIdle(NoError)
    /\ WrdIdle(0, DefaultBaseDelay)
    /\ SvcUnused
    /\ CacheInit
    /\ GcUnused
    /\ DbUnused
    /\ SgUnused
    /\ OaUnused
    /\ OeUnused

NextSign ==
    \/ SgTick /\ UNCHANGED <<rwcVars, srVars, wrdVars, svcVars, cacheVars, gcVars, dbVars, oaVars, oeVars>>
    \/ SgBuildHeaders /\ UNCHANGED <<rwcVars, srVars, wrdVars, svcVars, cacheVars, gcVars, dbVars, oaVars, oeVars>>

SpecSign == InitSign /\ [][NextSign]_vars

\* the inputs of the signature the claim fixes: the keys, region and service
\* as resolved, the X-Date, the method, and the URL (host, path, query) and
\* the body of the request
SignInputs(call) ==
    <<call.params.accessKeyId, call.params.secretAccessKey, call.params.region,
      call.params.serviceName, call.params.headers, call.params.method,
      call.params.pathName, call.params.query, call.params.bodySha>>

SignatureFollowsXDate ==
    \A i \in DOMAIN sg_signed : \A j \in DOMAIN sg_signed :
        sg_signed[i].params.headers.XDate # sg_signed[j].params.headers.XDate =>
            sg_signed[i].headers.Authorization # sg_signed[j].headers.Authorization

----------------------------------------------------------------------------
(* Specification of OpenAIAdapter.buildGenerationRequest on every options *)

InitOpenAIRequest ==
    /\ RwcIdle(<< >>)
    /\ SrIdle(NoError)
    /\ WrdIdle(0, DefaultBaseDelay)
    /\ SvcUnused
    /\ CacheInit
    /\ GcUnused
    /\ DbUnused
    /\ SgUnused
    /\ \E options \in OaOptions : \E defaultModel \in OaDefaultModels :
          OaIdle(options, defaultModel)
    /\ OeUnused

NextOpenAIRequest ==
    \/ OaBuildGenerationRequest /\ UNCHANGED <<rwcVars, srVars, wrdVars, svcVars, cacheVars, gcVars, dbVars, sgVars, oeVars>>

SpecOpenAIRequest == InitOpenAIRequest /\ [][NextOpenAIRequest]_vars

\* the body holds the field
Has(field) == oa_request[1][field] # None

\* the model of the body
BodyModel == oa_request[1].model[1]

\* C28 as stated: quality and style are in the body only when the resolved
\* model is dall-e-3; background, moderation and output_compression only
\* when it is gpt-image-1.
C28_FieldGating ==
    oa_request # None =>
        /\ (Has("quality") \/ Has("style")) => BodyModel = "dall-e-3"
        /\ (Has("background") \/ Has("moderation") \/ Has("output_compression")) =>
              BodyModel = "gpt-image-1"

\* C28, amended: style is in the body only when the resolved model is
\* dall-e-3; quality only when it is dall-e-3 or gpt-image-1; background,
\* moderation, output_compression and output_format only when it is
\* gpt-image-1; for every combination of options.
C28_FieldGatingAmended ==
    oa_request # None =>
        /\ Has("style") => BodyModel = "dall-e-3"
        /\ Has("quality") => BodyModel \in {"dall-e-3", "gpt-image-1"}
        /\ (Has("background") \/ Has("moderation") \/ Has("output_compression")
              \/ Has("output_format")) => BodyModel = "gpt-image-1"

\* every gated option given, the model dall-e-2 by the config's default:
\* none of them is in the body
C28_Witness ==
    /\ oa_request # None
    /\ oa_options.model = None /\ oa_defaultModel = Some("dall-e-2")
    /\ \A f \in {"quality", "style", "background", "moderation", "output_format"} :
          oa_options[f] # None
    /\ oa_options.output_compression = Some(50)
    /\ \A f \in {"quality", "style", "background", "moderation", "output_compression",
                 "output_format"} : ~Has(f)

\* quality is sent for gpt-image-1
QualitySentForGptImage ==
    /\ oa_request # None
    /\ BodyModel = "gpt-image-1"
    /\ Has("quality")

----------------------------------------------------------------------------
(* withRetryDelay: the first success (SpecBackoff) *)

\* C29: when the operation fails with retryable errors on its first k-1
\* invocations and succeeds on the k-th (1 <= k <= maxRetries + 1),
\* withRetryDelay returns that invocation's value after exactly k
\* invocations and exactly k-1 waits, of baseDelay * 2^0 .. baseDelay *
\* 2^(k-2); the operation is not invoked again afterwards, and never more
\* than maxRetries + 1 times in total.
C29_FirstSuccessReturns ==
    /\ \A k \in DOMAIN wrdOutcomes :
          wrdOutcomes[k].ok =>
              /\ k = Len(wrdOutcomes)
              /\ k <= maxRetries + 1
              /\ \A j \in 1..(k - 1) :
                    ~wrdOutcomes[j].ok /\ Retryable(wrdOutcomes[j].error)
              /\ wrd_pc = "returned"
              /\ wrdOut = Some(wrdOutcomes[k].value)
              /\ wrdInvoked = k
              /\ Len(delays) = k - 1
              /\ \A j \in 1..(k - 1) : delays[j] = baseDelay * 2^(j - 1)
    /\ wrd_pc = "returned" => Len(wrdOutcomes) > 0 /\ wrdOutcomes[Len(wrdOutcomes)].ok
    /\ wrdInvoked <= (IF maxRetries >= 0 THEN maxRetries + 1 ELSE 0)

\* the success came on the last invocation allowed, after two waits
C29_Witness ==
    /\ wrd_pc = "returned"
    /\ maxRetries = 2 /\ baseDelay = 1000
    /\ Len(wrdOutcomes) = 3
    /\ wrdOut = Some("img_b")
    /\ delays = <<1000, 2000>>

----------------------------------------------------------------------------
(* Doubao: the model of an edit call (SpecDoubao) *)

\* line 132: options.model || config.config.defaultEditModel || 'seededit_v3.0'
ResolvedEditModel == JsOrStr(db_model, JsOrStr(db_defaultEditModel, Some(EditModel)))[1]

\* C30: editImage submits a task only when the resolved model is
\* seededit_v3.0; for another model it fails before any task is submitted.
C30_EditRouting ==
    db_kind = "edit" =>
        /\ db_http.submit > 0 => ResolvedEditModel = EditModel
        /\ (ResolvedEditModel # EditModel /\ db_pc # "idle") =>
              /\ db_pc = "thrown"
              /\ db_http = NoHttp

\* what the code does: with image data it can take, editImage submits a
\* task for whatever model was resolved, with that model as req_key
EditSubmitsAnyModel ==
    (db_kind = "edit" /\ db_pc # "idle" /\ db_image = "ok") =>
        /\ db_http.submit = 1
        /\ db_reqKey = Some(ResolvedEditModel)

\* a task was submitted for the generation model
EditSubmittedGenerationModel ==
    /\ db_kind = "edit"
    /\ db_model = Some(SyncModel)
    /\ db_http.submit = 1
    /\ db_reqKey = Some(SyncModel)

----------------------------------------------------------------------------
(* Invalidation of the model cache (SpecCache) *)

\* C31: clearModelCache(config) removes the entry of that config's key and
\* leaves every other entry, models and timestamp, as it was;
\* clearModelCache() removes every entry; and a getModels call that finds no
\* entry for its config calls _getModels, however recently the removed
\* entry was stored.
C31_Invalidation ==
    [][/\ \A cfg \in CacheConfigs :
             ClearModelCache(Some(cfg)) =>
                 /\ modelCache'[cacheKey(cfg)] = None
                 /\ \A k \in CacheKeys \ {cacheKey(cfg)} : modelCache'[k] = modelCache[k]
       /\ ClearModelCache(None) => \A k \in CacheKeys : modelCache'[k] = None
       /\ \A c \in Callers : \A cfg \in CacheConfigs :
             (GmEnter(c, cfg) /\ modelCache[cacheKey(cfg)] = None) =>
                 /\ gm'[c].pc = "fetching"
                 /\ gm'[c].config = cfg]_vars

\* an entry stored less than five minutes ago was removed, and the next
\* getModels call for its config is fetching
C31_Witness ==
    /\ lastCall.done /\ lastCall.fetched /\ ~lastCall.failed
    /\ now - lastCall.at < CACHE_DURATION
    /\ modelCache[cacheKey(lastCall.config)] = None
    /\ \E c \in Callers : gm[c].pc = "fetching" /\ gm[c].config = lastCall.config

\* caller c's refresh succeeds in this step, and the call that returned
\* last was a successful refresh for another config of the same type that
\* completed (its entry is stamped) after c's call had started: the two
\* fetches overlapped
SecondOfOverlappingRefreshes(c) ==
    /\ RefreshSucceeds(c)
    /\ lastCall.done /\ lastCall.fetched /\ ~lastCall.failed /\ lastCall.raw # None
    /\ lastCall.config.type = gm[c].config.type
    /\ lastCall.config # gm[c].config
    /\ modelCache[cacheKey(lastCall.config)] # None
    /\ gm[c].at < modelCache[cacheKey(lastCall.config)][1].timestamp

\* C32: when the fetches of two getModels calls for two configurations of
\* one type overlap and both succeed, the registry entry of the type holds
\* the models of both fetched lists once both have completed.
C32_NoLostRegistryUpdate ==
    [][\A c \in Callers :
          SecondOfOverlappingRefreshes(c) =>
              LET t == gm[c].config.type
              IN /\ registry'[t] # None
                 /\ (Range(lastCall.raw[1]) \cup Range(lastCall'.raw[1]))
                       \subseteq Range(registry'[t][1])]_vars

\* two overlapping refreshes for two openai configs have both completed
OverlappingRefreshesDone ==
    /\ lastCall.done /\ lastCall.fetched /\ ~lastCall.failed
    /\ modelCache[<<"openai", 0>>] # None
    /\ modelCache[<<"openai", 1>>] # None
    /\ lastCall.config = [type |-> "openai", index |-> 1]
    /\ lastCall.at < modelCache[<<"openai", 0>>][1].timestamp
    /\ modelCache[<<"openai", 0>>][1].timestamp <= modelCache[<<"openai", 1>>][1].timestamp
    /\ \A c \in Callers : gm[c].pc = "idle"

----------------------------------------------------------------------------
(* The model an attempt hands to the adapter (SpecService) *)

\* C33: in each per-configuration attempt the requested model is passed to
\* the adapter exactly when supportsModel answered true for that
\* configuration, and is left out otherwise, whatever was done in the
\* attempts before it: the request's options stay as they were.  With the
\* model left out, the Doubao generateImage sends the default model.
C33_ModelPerAttempt ==
    /\ \A j \in DOMAIN adapterCalls :
          /\ adapterCalls[j].supports = "unasked" <=> svc_model = None
          /\ adapterCalls[j].supports = "true" => adapterCalls[j].model = svc_model
          /\ adapterCalls[j].supports \in {"false", "unasked"} =>
                adapterCalls[j].model = None
    /\ (/\ svc_kind = "generate"
        /\ ad_pc = "entered"
        /\ adapterCalls[Len(adapterCalls)].model = None
        /\ db_pc # "idle") =>
          db_reqKey = Some(SyncModel)

\* the model was dropped for the first configuration and passed to the second
C33_Witness ==
    /\ Len(adapterCalls) >= 2
    /\ adapterCalls[1].supports = "false" /\ adapterCalls[1].model = None
    /\ adapterCalls[2].pos # adapterCalls[1].pos
    /\ adapterCalls[2].supports = "true" /\ adapterCalls[2].model = Some("dall-e-3")
    /\ svc_model = Some("dall-e-3")

\* a Doubao generate attempt whose model was left out has built its request
DroppedModelUsesDefault ==
    /\ svc_kind = "generate"
    /\ ad_pc = "entered"
    /\ adapterCalls[Len(adapterCalls)].supports = "false"
    /\ db_reqKey = Some(SyncModel)

----------------------------------------------------------------------------
(* The adapter calls one generate request can cost (SpecService) *)

RECURSIVE TriesDueOver(_)
\* the sum of retryCount + 1 over a list of configurations
TriesDueOver(cs) == IF cs = << >> THEN 0 ELSE TriesDue(Head(cs)) + TriesDueOver(Tail(cs))

\* an attempt (the per-config operation) succeeded at list position pos
AttemptSucceededAt(pos) ==
    \E j \in DOMAIN opOutcomes : opOutcomes[j].pos = pos /\ opOutcomes[j].ok

\* C34: during one generateImage request over configurations c_1..c_k the
\* adapter is called at most retryCount_i + 1 times for c_i (3 times when
\* retryCount is unset), at most the sum of these in total, and never for a
\* configuration after one whose attempt has succeeded.
C34_BoundedGenerateCost ==
    svc_kind = "generate" =>
        /\ \A pos \in 0..(Len(configs) - 1) :
              /\ CallsAt(pos) <= TriesDue(configs[pos + 1])
              /\ AttemptSucceededAt(pos) =>
                    \A j \in DOMAIN adapterCalls : adapterCalls[j].pos <= pos
        /\ \A j \in DOMAIN adapterCalls : adapterCalls[j].pos \in 0..(Len(configs) - 1)
        /\ Len(adapterCalls) <= TriesDueOver(configs)

\* a generate request that used every call it may make on two configurations,
\* the first with retryCount unset
C34_Witness ==
    /\ svc_kind = "generate"
    /\ Len(configs) = 2
    /\ configs[1].retryCount = None
    /\ CallsAt(0) = 3
    /\ Len(adapterCalls) = TriesDueOver(configs)
    /\ svc_pc \in {"returned", "thrown"}

----------------------------------------------------------------------------
(* Task submission of the Doubao editImage (SpecDoubao, SpecService) *)

\* C35: one Doubao editImage call makes one submit-task call, before any
\* result query, and never another one whatever the result queries answer;
\* the service calls editImage once per configuration of an edit request
\* (EditCalledOncePerConfig), so it submits at most one task for each.
C35_OneSubmitPerEdit ==
    db_kind = "edit" =>
        /\ db_http.submit <= 1
        /\ db_pc \in {"submit", "poll", "query", "wait", "returned"} => db_http.submit = 1
        /\ db_http.result > 0 =>
              /\ db_http.submit = 1
              /\ db_resp.submit # None
              /\ Accepted(db_resp.submit[1])

\* an edit whose task expired after several result queries: one submit was made
C35_Witness ==
    /\ db_kind = "edit"
    /\ db_pc = "thrown"
    /\ LastResultIs("expired")
    /\ db_http.result >= 3
    /\ db_http.submit = 1

\* an edit request calls the adapter's editImage at most once for each
\* configuration of its list (SpecService)
EditCalledOncePerConfig ==
    svc_kind = "edit" => \A pos \in 0..(Len(configs) - 1) : CallsAt(pos) <= 1

\* an edit request that called editImage for each of two configurations
EditCalledForTwoConfigs ==
    /\ svc_kind = "edit"
    /\ Len(configs) = 2
    /\ CallsAt(0) = 1 /\ CallsAt(1) = 1

----------------------------------------------------------------------------
(* A failed result query of the Doubao editImage (SpecDoubao) *)

\* a result query ends in failure: the HTTP call rejects, or its response
\* has a status other than 200 or a code other than 10000
QueryFails ==
    /\ db_pc = "query"
    /\ db_pc' # "query"
    /\ \/ DbHttpRejects
       \/ db_resp'.result # None /\ ~Accepted(db_resp'.result[1])

\* C36: a result query that fails during polling (the HTTP call throws, or
\* the response has a non-200 status or a code other than 10000) ends the
\* call at once with an error, however few queries were made, and a call
\* that has thrown takes no further step: no further query is made.
C36_FailedQueryIsFatal ==
    [][/\ db_pc # "thrown"
       /\ QueryFails =>
             /\ db_pc' = "thrown"
             /\ db_out' # None /\ ~db_out'[1].ok /\ db_out'[1].error.isError
             /\ db_http' = db_http]_vars

\* the second result query was refused and the edit has thrown
C36_Witness ==
    /\ db_kind = "edit"
    /\ db_pc = "thrown"
    /\ db_http.result = 2
    /\ db_attempt = 1
    /\ db_resp.result # None /\ ~Accepted(db_resp.result[1])
    /\ db_out[1].error.isError

----------------------------------------------------------------------------
(* The model cache after a failed refresh (SpecCache) *)

\* C37: when the raw listModels call fails no cache entry is created or
\* updated: neither the stale list nor the default list the call returns is
\* stored.  The next getModels call for that config, finding the entry the
\* failed call found, fetches again.
C37_FailedRefreshStoresNothing ==
    [][/\ \A c \in Callers :
            (gm[c].pc = "fetching" /\ gm'[c].pc = "idle" /\ lastCall'.failed) =>
                \A k \in CacheKeys : modelCache'[k] = modelCache[k]
       /\ \A c \in Callers : \A cfg \in CacheConfigs :
            (/\ GmEnter(c, cfg)
             /\ lastCall.done /\ lastCall.failed
             /\ lastCall.config = cfg
             /\ modelCache[cacheKey(cfg)] = lastCall.cached) =>
                /\ gm'[c].pc = "fetching"
                /\ gm'[c].config = cfg]_vars

\* a refresh failed with no entry in the cache and returned the default
\* list; a later call for the same config, less than five minutes on, finds
\* no entry and is fetching again
C37_Witness ==
    \E c \in Callers :
        /\ gm[c].pc = "fetching"
        /\ lastCall.done /\ lastCall.failed
        /\ lastCall.cached = None
        /\ lastCall.ret = getDefaultModels(lastCall.config.type)
        /\ gm[c].config = lastCall.config
        /\ gm[c].cached = None
        /\ gm[c].at > lastCall.at
        /\ gm[c].at - lastCall.at < CACHE_DURATION
        /\ modelCache[cacheKey(lastCall.config)] = None

----------------------------------------------------------------------------
(* The indices a RetryResult reports (SpecService) *)

\* C38: in the RetryResult of a request, the index reported for each failed
\* attempt, and usedConfigIndex on success, equals the index field of the
\* configuration that was attempted, also when getConfigs returned a
\* model-filtered sub-list of the configurations.  (The k-th error is that
\* of the k-th configuration of the list; a success is that of the
\* configuration after the failed ones.)
C38_IndicesIdentifyConfigs ==
    svc_pc \in {"retrying", "returned", "thrown"} =>
        /\ \A k \in DOMAIN result.errors :
              result.errors[k].configIndex >= 0 =>
                  result.errors[k].configIndex = configs[k].index
        /\ result.usedConfigIndex # None =>
              result.usedConfigIndex[1] = configs[Len(result.errors) + 1].index

\* getConfigs kept the second configuration alone and its attempt failed:
\* the error is reported under index 0, the configuration's index is 1
FilteredConfigReportedAsZero ==
    /\ Len(getAllConfigs) = 2
    /\ svc_model # None
    /\ Len(configs) = 1
    /\ configs[1].index = 1
    /\ Len(result.errors) = 1
    /\ result.errors[1].configIndex = 0
    /\ adapterCalls[1].index = 1

----------------------------------------------------------------------------
(* Specification of buildEditRequest alone: one call on each choice of     *)
(* options.model, options.image and the two configured default models       *)

InitOpenAIEdit ==
    /\ RwcIdle(<< >>)
    /\ SrIdle(NoError)
    /\ WrdIdle(0, DefaultBaseDelay)
    /\ SvcUnused
    /\ CacheInit
    /\ GcUnused
    /\ DbUnused
    /\ SgUnused
    /\ OaUnused
    /\ \E model \in OeModels : \E image \in OeImages :
          \E defaultModel \in OeDefaultModels : \E defaultEditModel \in OeDefaultEditModels :
             OeIdle(model, image, defaultModel, defaultEditModel)

NextOpenAIEdit ==
    \/ OaBuildEditRequest /\ UNCHANGED <<rwcVars, srVars, wrdVars, svcVars, cacheVars, gcVars, dbVars, sgVars, oaVars>>

SpecOpenAIEdit == InitOpenAIEdit /\ [][NextOpenAIEdit]_vars

\* the OpenAI edit request of a call without a model, on a configuration
\* with a defaultEditModel, names that model
OpenAIEditNamesDefaultEditModel ==
    (/\ oe_out # None
     /\ oe_out[1].ok
     /\ ~TruthyStr(oe_model)
     /\ TruthyStr(oe_defaultEditModel)) =>
        oe_out[1].model = oe_defaultEditModel[1]

\* the task the Doubao editImage submits for a call without a model, on a
\* configuration with a defaultEditModel, names that model
DoubaoEditNamesDefaultEditModel ==
    (/\ db_kind = "edit"
     /\ db_http.submit > 0
     /\ ~TruthyStr(db_model)
     /\ TruthyStr(db_defaultEditModel)) =>
        db_reqKey = db_defaultEditModel

\* C39: when an edit request carries no model, each adapter edits with the
\* configuration's defaultEditModel when one is configured: the OpenAI edit
\* request and the Doubao submitted task both name config.defaultEditModel,
\* not the generation default model.
C39_DefaultEditModel ==
    /\ OpenAIEditNamesDefaultEditModel
    /\ DoubaoEditNamesDefaultEditModel

\* an OpenAI edit without a model, on a configuration with defaultModel
\* dall-e-3 and defaultEditModel gpt-image-1, names dall-e-3
OpenAIEditNamedGenerationDefault ==
    /\ oe_out # None /\ oe_out[1].ok
    /\ oe_model = None
    /\ oe_defaultModel = Some("dall-e-3")
    /\ oe_defaultEditModel = Some("gpt-image-1")
    /\ oe_out[1].model = "dall-e-3"

\* a Doubao edit without a model, on a configuration with a defaultEditModel,
\* has submitted its task
DoubaoEditSubmittedDefaultEditModel ==
    /\ db_kind = "edit"
    /\ db_model = None
    /\ db_defaultEditModel # None
    /\ db_http.submit = 1
    /\ db_reqKey = db_defaultEditModel

----------------------------------------------------------------------------
(* Termination of a request (SpecServiceLive) *)

\* the service under the scheduling of the event loop: a step of the request
\* that can be taken is taken, and an awaited adapter call or delay that can
\* complete does complete
SpecServiceLive == SpecService /\ WF_vars(NextService)

\* the request completed: it returned the image elements or threw its error
RequestDone ==
    /\ svc_pc \in {"returned", "thrown"}
    /\ ad_pc \in {"idle", "ready"}

\* the adapter calls a request may make: retryCount + 1 for each
\* configuration of a generate request, one for each of an edit or
\* variation request
CallsAllowed ==
    IF svc_kind = "generate" THEN TriesDueOver(configs) ELSE Len(configs)

\* C40: if every adapter call eventually completes, every generateImage,
\* editImage and createVariation request eventually completes, returning the
\* image elements or throwing a single error, after finitely many adapter
\* calls.
C40_EveryRequestTerminates ==
    /\ <>RequestDone
    /\ [](Len(adapterCalls) <= CallsAllowed)
    /\ [](/\ svc_pc = "returned" => svc_out.kind = "elements"
          /\ svc_pc = "thrown" => svc_out.kind \notin {"none", "elements"})

\* an edit request over two configurations has completed by throwing the
\* summary of its two failures
C40_Witness ==
    /\ svc_kind = "edit"
    /\ svc_pc = "thrown"
    /\ Len(adapterCalls) = 2
    /\ svc_out.kind = "summary"

----------------------------------------------------------------------------
(* Termination of a Doubao editImage call (SpecDoubaoLive) *)

\* the adapter under the same scheduling: an HTTP call or a wait that can
\* complete does complete
SpecDoubaoLive == SpecDoubao /\ WF_vars(NextDoubao)

\* a Doubao call ends, an edit after at most one submit and 30 result queries
DoubaoCallTerminates ==
    /\ <>(db_pc \in {"returned", "thrown"})
    /\ [](db_kind = "edit" => db_http.submit <= 1 /\ db_http.result <= MaxPollAttempts)

\* an edit has timed out after its 30 result queries
EditTimedOutAfterThirty ==
    /\ db_kind = "edit"
    /\ DbThrew("task processing timed out")
    /\ db_http.result = MaxPollAttempts

====
